---- MODULE Spec2Model ----
(***************************************************************************)
(* Model of the opstrat_backtester simulation core:                        *)
(*   core/portfolio.py  Portfolio (position ledger, mark-to-market)        *)
(*   core/events.py     OptionExpirationHandler                            *)
(*   core/engine.py     Backtester (the day-by-day orchestrator)           *)
(*                                                                         *)
(* Dates are day numbers.  Money is integral; the only fraction the ledger *)
(* computes is the weighted-average cost basis, kept as an exact reduced   *)
(* fraction [n, d].  A Python dict is a function whose DOMAIN is the set   *)
(* of keys present.                                                        *)
(***************************************************************************)
EXTENDS Integers, Sequences, FiniteSets, TLC

\* ------------------------------------------------------------------ bounds
\* Calendar days of market data offered to a run / to the ledger's clients.
NumDays == 3
\* Largest absolute quantity of a signal or of a direct trade.
MaxQty == 2
\* Number of direct client calls on the ledger.
MaxCalls == 3
\* Signals a strategy returns over a whole run.
MaxSignals == 2

\* Calls each process makes to the cache.
MaxCacheCalls == 2

\* The absent value of an optional number (Python None).
None == -1
\* pandas' missing-value sentinel for a quote.
NaN == -2

Tickers == {"OPT_A", "OPT_B"}
Days == 1..NumDays
Quantities == {q \in (0 - MaxQty)..MaxQty : q # 0}

VARIABLES
    portfolio,        \* Backtester.portfolio: [cash, positions, order, trades, history]
    lastCall,         \* the last operation applied to the ledger, with its arguments
    prev,             \* the ledger as it was when that operation began
    cur_date,         \* run(): the loop's date; a ledger client's current date
    pc,               \* where run() is; "client" when the ledger is driven directly
    config,           \* the Backtester's constructor arguments and data source
    stream,           \* option-chain chunks the data source has not yielded yet
    dates_in_chunk,   \* the current chunk's sorted dates not yet looped over
    current_options,  \* the current day's option chain, symbol -> row
    daily_history,    \* Backtester.daily_history
    day_log,          \* the stages run() has completed for cur_date, in order
    calls,            \* number of calls a direct client has made
    trade_log,        \* Backtester.trade_log
    handler_log,      \* the event handlers invoked on cur_date, in order
    requests,         \* the date ranges run() has asked the data source for
    fs,               \* the cache directory: the key's parquet, temp and lock files
    procs             \* the processes calling the cache: position, lock file, result

vars == <<portfolio, lastCall, prev, cur_date, pc, config, stream, dates_in_chunk,
          current_options, daily_history, day_log, calls, trade_log, handler_log,
          requests, fs, procs>>

\* ------------------------------------------------------------- arithmetic
Abs(x) == IF x < 0 THEN 0 - x ELSE x

Max(a, b) == IF a >= b THEN a ELSE b

RECURSIVE GCD(_, _)
GCD(a, b) == IF b = 0 THEN a ELSE GCD(b, a % b)

\* The fraction n/d (d # 0) in lowest terms with a positive denominator.
Frac(n, d) ==
    LET g == GCD(Abs(n), Abs(d))
        s == IF d < 0 THEN 0 - 1 ELSE 1
    IN  [n |-> (s * n) \div g, d |-> (s * d) \div g]

Zero == [n |-> 0, d |-> 1]

\* ------------------------------------------------------------------ dicts
\* dict.update / {**a, **b}: the keys of new win.
DictUpdate(old, new) ==
    [k \in (DOMAIN old) \cup (DOMAIN new) |->
        IF k \in DOMAIN new THEN new[k] ELSE old[k]]

DictRemove(d, key) == [k \in (DOMAIN d) \ {key} |-> d[k]]

EmptyDict == [k \in {} |-> 0]

SeqRemove(s, x) == SelectSeq(s, LAMBDA e : e # x)

\* -------------------------------------------------- Portfolio.add_trade
\* portfolio.py:160
allowed_metadata ==
    {"type", "due_date", "strike", "option_type", "delta", "hedged_stock_ticker"}

AllowedOnly(metadata) ==
    [k \in (DOMAIN metadata) \cap allowed_metadata |-> metadata[k]]

\* portfolio.py:115-117
CashAfter(cash, quantity, price) == cash - quantity * price

\* portfolio.py:120-127
TradeRecord(trade_date, ticker, quantity, price, metadata) ==
    DictUpdate([date |-> trade_date, ticker |-> ticker, quantity |-> quantity,
                price |-> price, cost |-> quantity * price],
               metadata)

\* Mutant: the new record takes the place of the latest one.
RecordTrade_Overwrite(trades, trade_record) ==
    IF trades = <<>> THEN <<trade_record>>
    ELSE [trades EXCEPT ![Len(trades)] = trade_record]

\* portfolio.py:128: self.trades.append(trade_record)
RecordTrade(trades, trade_record) == Append(trades, trade_record)

\* portfolio.py:131-141: the position add_trade works on.
PositionFor(positions, trade_date, ticker, price, metadata) ==
    IF ticker \notin DOMAIN positions
    THEN [quantity |-> 0, cost_basis |-> Zero, market_value |-> 0,
          last_price |-> price, last_price_date |-> trade_date,
          metadata |-> metadata, mtm_price_source |-> "UNSET"]
    ELSE [positions[ticker] EXCEPT !.metadata = DictUpdate(@, metadata)]

\* Mutant: the average is recomputed on every trade, sells included.
CostBasisAfter_AnyTrade(cost_basis, old_quantity, quantity, price, new_quantity) ==
    IF new_quantity > 0
    THEN Frac(cost_basis.n * old_quantity + quantity * price * cost_basis.d,
              cost_basis.d * new_quantity)
    ELSE Zero

\* Mutant: a buy overwrites the cost basis with the trade's price.
CostBasisAfter_LastPrice(cost_basis, old_quantity, quantity, price, new_quantity) ==
    IF quantity > 0
    THEN IF new_quantity > 0 THEN Frac(price, 1) ELSE Zero
    ELSE cost_basis

\* portfolio.py:148-151: buys recompute the average, sells leave it alone.
CostBasisAfter(cost_basis, old_quantity, quantity, price, new_quantity) ==
    IF quantity > 0
    THEN IF new_quantity > 0
         THEN Frac(cost_basis.n * old_quantity + quantity * price * cost_basis.d,
                   cost_basis.d * new_quantity)
         ELSE Zero
    ELSE cost_basis

\* Mutant: a closed position is kept in the ledger.
StorePosition_KeepClosed(positions, ticker, position) ==
    [k \in (DOMAIN positions) \cup {ticker} |->
        IF k = ticker THEN position ELSE positions[k]]

\* portfolio.py:166-168: a closed position leaves the ledger.
StorePosition(positions, ticker, position) ==
    IF position.quantity = 0
    THEN DictRemove(positions, ticker)
    ELSE [k \in (DOMAIN positions) \cup {ticker} |->
             IF k = ticker THEN position ELSE positions[k]]

\* The dict's insertion order: a new key goes last, a deleted key leaves.
StoreOrder(order, positions, ticker, position) ==
    IF position.quantity = 0
    THEN SeqRemove(order, ticker)
    ELSE IF ticker \in DOMAIN positions THEN order ELSE Append(order, ticker)

\* portfolio.py:49-170.  The signature has no commission or fees parameter:
\* costs reach the ledger only as keys of metadata.
add_trade(pf, trade_date, ticker, quantity, price, metadata) ==
    LET position == PositionFor(pf.positions, trade_date, ticker, price, metadata)
        old_quantity == position.quantity
        new_quantity == old_quantity + quantity
        updated ==
            [position EXCEPT
                !.cost_basis = CostBasisAfter(@, old_quantity, quantity, price,
                                              new_quantity),
                !.last_price = IF quantity > 0 THEN price ELSE @,
                !.last_price_date = IF quantity > 0 THEN trade_date ELSE @,
                !.quantity = new_quantity,
                !.metadata = DictUpdate(@, AllowedOnly(metadata))]
    IN  [pf EXCEPT
            !.cash = CashAfter(@, quantity, price),
            !.trades = RecordTrade(@, TradeRecord(trade_date, ticker, quantity,
                                                  price, metadata)),
            !.positions = StorePosition(@, ticker, updated),
            !.order = StoreOrder(@, pf.positions, ticker, updated)]

\* portfolio.py:42-47
NewPortfolio(initial_cash, stale_price_days) ==
    [cash |-> initial_cash, positions |-> EmptyDict, order |-> <<>>,
     trades |-> <<>>, history |-> <<>>, stale_price_days |-> stale_price_days]

\* --------------------------------------------- Portfolio.mark_to_market
\* str.upper on the option-type spellings that occur.
Upper(s) ==
    CASE s = "call" -> "CALL"
      [] s = "put" -> "PUT"
      [] OTHER -> s

\* portfolio.py:206
IsOption(position) ==
    IF DOMAIN position.metadata # {}
    THEN "type" \in DOMAIN position.metadata /\ position.metadata.type = "option"
    ELSE FALSE

\* portfolio.py:209-219: a row for the ticker whose close is not NaN.
HasFreshPrice(market_data, ticker) ==
    ticker \in DOMAIN market_data /\ market_data[ticker].close # NaN

\* Mutant: the grace period ends a day early.
DaysStale_DayEarly(position, date) == date - position.last_price_date + 1

\* portfolio.py:223
DaysStale(position, date) == date - position.last_price_date

\* portfolio.py:250-253
MtmIntrinsic(option_type, strike, current_spot_price) ==
    IF Upper(option_type) = "PUT"
    THEN Max(0, strike - current_spot_price)
    ELSE Max(0, current_spot_price - strike)

\* portfolio.py:209-273: which branch of the fallback chain values the position.
MtmTier(position, ticker, date, market_data, current_spot_price, stale_price_days) ==
    IF HasFreshPrice(market_data, ticker) THEN "MARKET_CLOSE"
    ELSE IF DaysStale(position, date) <= stale_price_days THEN "STALE_FWD"
    ELSE IF IsOption(position) /\ current_spot_price # None
         THEN IF "strike" \notin DOMAIN position.metadata
                 \/ "option_type" \notin DOMAIN position.metadata
              THEN "ZERO_NO_METADATA"
              ELSE "INTRINSIC"
    ELSE "ZERO_NO_DATA"

\* Mutant: where the chain ends at zero the last price is carried instead.
MtmPrice_CarriesLast(position, ticker, tier, market_data, current_spot_price) ==
    CASE tier = "MARKET_CLOSE" -> market_data[ticker].close
      [] tier = "INTRINSIC" ->
            MtmIntrinsic(position.metadata.option_type, position.metadata.strike,
                         current_spot_price)
      [] OTHER -> position.last_price

\* The per-unit price of the branch taken.
MtmPrice(position, ticker, tier, market_data, current_spot_price) ==
    CASE tier = "MARKET_CLOSE" -> market_data[ticker].close
      [] tier = "STALE_FWD" -> position.last_price
      [] tier = "INTRINSIC" ->
            MtmIntrinsic(position.metadata.option_type, position.metadata.strike,
                         current_spot_price)
      [] OTHER -> 0

\* Mutant: only a fresh close resets the last price.
ResetsLastPrice_FreshOnly(tier) == tier = "MARKET_CLOSE"

\* Mutant: every valuation resets the last price.
ResetsLastPrice_Always(tier) == TRUE

\* portfolio.py:215-216, 263-264: the branches that reset the last price.
ResetsLastPrice(tier) == tier \in {"MARKET_CLOSE", "INTRINSIC", "ZERO_NO_METADATA"}

\* portfolio.py:236: the branches that report the ticker as missing data.
ReportsMissing(tier) == tier \in {"INTRINSIC", "ZERO_NO_METADATA"}

\* Mutant: a fallback valuation moves last_price_date but keeps last_price.
MtmPosition_KeepsPriceOnFallback(position, ticker, date, market_data, current_spot_price, stale_price_days) ==
    LET tier == MtmTier(position, ticker, date, market_data, current_spot_price,
                        stale_price_days)
        current_price == MtmPrice(position, ticker, tier, market_data,
                                  current_spot_price)
    IN  [position EXCEPT
            !.last_price = IF tier = "MARKET_CLOSE" THEN current_price ELSE @,
            !.last_price_date = IF ResetsLastPrice(tier) THEN date ELSE @,
            !.market_value = position.quantity * current_price,
            !.mtm_price_source = tier]

\* Mutant: the valuation also moves the cost basis to the valuation price.
MtmPosition_MovesCostBasis(position, ticker, date, market_data, current_spot_price, stale_price_days) ==
    LET tier == MtmTier(position, ticker, date, market_data, current_spot_price,
                        stale_price_days)
        current_price == MtmPrice(position, ticker, tier, market_data,
                                  current_spot_price)
    IN  [position EXCEPT
            !.last_price = IF ResetsLastPrice(tier) THEN current_price ELSE @,
            !.last_price_date = IF ResetsLastPrice(tier) THEN date ELSE @,
            !.market_value = position.quantity * current_price,
            !.cost_basis = Frac(current_price, 1),
            !.mtm_price_source = tier]

\* portfolio.py:201-280 for one position.
MtmPosition(position, ticker, date, market_data, current_spot_price, stale_price_days) ==
    LET tier == MtmTier(position, ticker, date, market_data, current_spot_price,
                        stale_price_days)
        current_price == MtmPrice(position, ticker, tier, market_data,
                                  current_spot_price)
    IN  [position EXCEPT
            !.last_price = IF ResetsLastPrice(tier) THEN current_price ELSE @,
            !.last_price_date = IF ResetsLastPrice(tier) THEN date ELSE @,
            !.market_value = position.quantity * current_price,
            !.mtm_price_source = tier]

\* Mutant: only the first position's value enters the total.
SumValues_FirstOnly(order, positions) ==
    IF order = <<>> THEN 0 ELSE positions[Head(order)].market_value

RECURSIVE SumValues(_, _)
SumValues(order, positions) ==
    IF order = <<>> THEN 0
    ELSE positions[Head(order)].market_value + SumValues(Tail(order), positions)

\* portfolio.py:172-289
mark_to_market(pf, date, market_data, current_spot_price) ==
    LET marked ==
            [t \in DOMAIN pf.positions |->
                MtmPosition(pf.positions[t], t, date, market_data,
                            current_spot_price, pf.stale_price_days)]
        total_value == pf.cash + SumValues(pf.order, marked)
        positions_missing_data ==
            SelectSeq(pf.order,
                      LAMBDA t : ReportsMissing(
                          MtmTier(pf.positions[t], t, date, market_data,
                                  current_spot_price, pf.stale_price_days)))
    IN  [pf EXCEPT
            !.positions = marked,
            !.history = Append(@, [date |-> date,
                                   portfolio_value |-> total_value,
                                   cash |-> pf.cash,
                                   positions_value |-> total_value - pf.cash,
                                   missing_mtm_tickers |-> positions_missing_data])]

\* ------------------------------------- OptionExpirationHandler.handle
\* Mutant: without a row for the date, the latest earlier row is used.
StockRowsOn_LatestEarlier(stock_data, current_date) ==
    LET earlier == SelectSeq(stock_data, LAMBDA r : r.date <= current_date)
    IN  IF earlier = <<>> THEN <<>> ELSE <<earlier[Len(earlier)]>>

\* events.py:30: the rows of the stock slice dated current_date.
StockRowsOn(stock_data, current_date) ==
    SelectSeq(stock_data, LAMBDA r : r.date = current_date)

\* events.py:55-59
Intrinsic(opt_type, strike, current_stock_price) ==
    IF opt_type = "CALL" THEN Max(0, current_stock_price - strike)
    ELSE IF opt_type = "PUT" THEN Max(0, strike - current_stock_price)
    ELSE 0

\* Mutant: the tags are exchanged.
ExpiryAction_Inverted(intrinsic_value) ==
    IF intrinsic_value = 0 THEN "EXERCISE_ITM" ELSE "EXPIRE_OTM"

\* events.py:61
ExpiryAction(intrinsic_value) ==
    IF intrinsic_value = 0 THEN "EXPIRE_OTM" ELSE "EXERCISE_ITM"

\* events.py:39-49: an option position whose expiry_date is current_date.
Expires(position, current_date) ==
    /\ "type" \in DOMAIN position.metadata
    /\ position.metadata.type = "option"
    /\ "expiry_date" \in DOMAIN position.metadata
    /\ position.metadata.expiry_date = current_date

\* Mutant: the settlement trade repeats the held quantity.
SettlementQuantity_SameSign(qty) == qty

\* events.py:63: the settlement trade's quantity.
SettlementQuantity(qty) == 0 - qty

\* events.py:51-65
Settle(pf, current_date, ticker, current_stock_price) ==
    LET position == pf.positions[ticker]
        strike == IF "strike" \in DOMAIN position.metadata
                  THEN position.metadata.strike ELSE 0
        opt_type == IF "option_type" \in DOMAIN position.metadata
                    THEN position.metadata.option_type ELSE ""
        intrinsic_value == Intrinsic(opt_type, strike, current_stock_price)
    IN  add_trade(pf, current_date, ticker, SettlementQuantity(position.quantity),
                  intrinsic_value, [action |-> ExpiryAction(intrinsic_value)])

RECURSIVE HandleLoop(_, _, _, _)
HandleLoop(positions_to_check, pf, current_date, current_stock_price) ==
    IF positions_to_check = <<>> THEN pf
    ELSE LET ticker == Head(positions_to_check)
             next == IF ticker \in DOMAIN pf.positions
                        /\ Expires(pf.positions[ticker], current_date)
                     THEN Settle(pf, current_date, ticker, current_stock_price)
                     ELSE pf
         IN  HandleLoop(Tail(positions_to_check), next, current_date,
                        current_stock_price)

\* events.py:28-65
handle(pf, current_date, stock_data) ==
    LET stock_price_row == StockRowsOn(stock_data, current_date)
    IN  IF stock_price_row = <<>> THEN pf
        ELSE HandleLoop(pf.order, pf, current_date, stock_price_row[1].close)

\* ------------------------------------------------ Backtester: helpers
\* engine.py:291-293 under the try of engine.py:397-400: the registered
\* handlers are called in order; the first one that raises ends the loop, and
\* run() catches the error.  A handler is the OptionExpirationHandler
\* ("expiration"), or a user's EventHandler that raises ("raises") or returns
\* without touching the ledger ("passes").  [pf, invoked, raised].
RECURSIVE handle_events(_, _, _, _)
handle_events(event_handlers, pf, date, stock_slice) ==
    IF event_handlers = <<>> THEN [pf |-> pf, invoked |-> <<>>, raised |-> FALSE]
    ELSE LET handler == Head(event_handlers)
         IN  IF handler = "raises"
             THEN [pf |-> pf, invoked |-> <<handler>>, raised |-> TRUE]
             ELSE LET r == handle_events(Tail(event_handlers),
                                         IF handler = "expiration"
                                         THEN handle(pf, date, stock_slice)
                                         ELSE pf,
                                         date, stock_slice)
                  IN  [r EXCEPT !.invoked = <<handler>> \o @]

\* The instruments the data source quotes: the static columns of a chain row.
Instruments ==
    [OPT_A |-> [type |-> "CALL", strike |-> 3, due_date |-> 3],
     OPT_B |-> [type |-> "PUT", strike |-> 3, due_date |-> 2]]

\* The quote columns of a ticker on a day: they differ from day to day and
\* high > close > low.
QuoteOn(ticker, d) ==
    LET base == IF ticker = "OPT_A" THEN 2 * d ELSE 2 * (NumDays + 1 - d)
    IN  [high |-> base + 2, low |-> base, close |-> base + 1]

ChainRow(ticker, d) ==
    [symbol |-> ticker, type |-> Instruments[ticker].type,
     strike |-> Instruments[ticker].strike,
     due_date |-> Instruments[ticker].due_date,
     close |-> QuoteOn(ticker, d).close, high |-> QuoteOn(ticker, d).high,
     low |-> QuoteOn(ticker, d).low]

\* The chains a day can have: every non-empty set of quoted tickers.
ChainsOn(d) ==
    {[t \in quoted |-> ChainRow(t, d)] : quoted \in (SUBSET Tickers) \ {{}}}

\* Mutant: every fill is at the execution day's close.
FillPrice_Close(execution_row, qty) == execution_row.close

\* engine.py:241: buys fill at the execution day's high, sells at its low.
FillPrice(execution_row, qty) ==
    IF qty > 0 THEN execution_row.high ELSE execution_row.low

\* engine.py:245
CommissionCost(qty, commission_per_contract) == Abs(qty) * commission_per_contract

\* engine.py:244-246: trade_value * fees_pct, an exact fraction.
FeeCost(qty, price, fees_pct) == Frac(Abs(qty) * price * fees_pct.n, fees_pct.d)

\* engine.py:252-263
TradeMetadata(decision_row, qty, commission_cost, fee_cost) ==
    [type |-> "option", option_type |-> decision_row.type,
     due_date |-> decision_row.due_date, strike |-> decision_row.strike,
     action |-> IF qty > 0 THEN "BUY" ELSE "SELL",
     commission |-> commission_cost, fees |-> fee_cost]

\* engine.py:241-264: the fill of a signal whose rows were found.  The call
\* at engine.py:264 also names commission= and fees=, which
\* Portfolio.add_trade (portfolio.py:49-56) does not declare: the ledger's
\* arithmetic sees the costs only as the metadata keys commission and fees.
BookSignal(pf, date, signal, execution_row, decision_row, cfg) ==
    LET qty == signal.quantity
        price == FillPrice(execution_row, qty)
        commission_cost == CommissionCost(qty, cfg.commission_per_contract)
        fee_cost == FeeCost(qty, price, cfg.fees_pct)
    IN  add_trade(pf, date, signal.ticker, qty, price,
                  TradeMetadata(decision_row, qty, commission_cost, fee_cost))

\* Mutant: a signal whose ticker has no row today is filled from the decision
\* day's row.
ExecuteSignal_FillsWithoutRow(pf, date, signal, options, decision_options, cfg) ==
    IF signal.ticker \notin DOMAIN decision_options
    THEN [pf |-> pf, raised |-> signal.ticker \in DOMAIN options]
    ELSE [pf |-> BookSignal(pf, date, signal,
                            IF signal.ticker \in DOMAIN options
                            THEN options[signal.ticker]
                            ELSE decision_options[signal.ticker],
                            decision_options[signal.ticker], cfg),
          raised |-> FALSE]

\* engine.py:234-264 for one signal: [pf, raised].  A signal whose ticker has
\* no row today is skipped; one whose ticker had no row on the decision day
\* raises IndexError at .iloc[0] (engine.py:251).
ExecuteSignal(pf, date, signal, options, decision_options, cfg) ==
    IF signal.ticker \notin DOMAIN options
    THEN [pf |-> pf, raised |-> FALSE]
    ELSE IF signal.ticker \notin DOMAIN decision_options
    THEN [pf |-> pf, raised |-> TRUE]
    ELSE [pf |-> BookSignal(pf, date, signal, options[signal.ticker],
                            decision_options[signal.ticker], cfg),
          raised |-> FALSE]

\* engine.py:208-264
RECURSIVE execute_trades(_, _, _, _, _, _)
execute_trades(pf, date, signals, options, decision_options, cfg) ==
    IF signals = <<>> THEN [pf |-> pf, raised |-> FALSE]
    ELSE LET r == ExecuteSignal(pf, date, Head(signals), options,
                                decision_options, cfg)
         IN  IF r.raised THEN r
             ELSE execute_trades(r.pf, date, Tail(signals), options,
                                 decision_options, cfg)

\* Mutant: the signals of every earlier day are executed again.
RECURSIVE SignalsToExecute_AllPast(_)
SignalsToExecute_AllPast(history) ==
    IF history = <<>> THEN <<>>
    ELSE Head(history).signals \o SignalsToExecute_AllPast(Tail(history))

\* Mutant: the signals of the entry before the last one are executed.
SignalsToExecute_Stale(history) ==
    IF Len(history) < 2 THEN <<>> ELSE history[Len(history) - 1].signals

\* engine.py:392: the signals run() hands to _execute_trades on a day.
SignalsToExecute(history) ==
    IF history = <<>> THEN <<>> ELSE history[Len(history)].signals

\* engine.py:393
DecisionOptions(history) ==
    IF history = <<>> THEN EmptyDict ELSE history[Len(history)].decision_options

\* Mutant: the window is cut from the oldest rows.
LastN_Oldest(s, n) == IF Len(s) <= n THEN s ELSE SubSeq(s, 1, n)

\* engine.py:386: .iloc[-n:], the last n rows in the order the table has.
LastN(s, n) == IF Len(s) <= n THEN s ELSE SubSeq(s, Len(s) - n + 1, Len(s))

\* engine.py:376-389
StockHistorySlice(stock_data, date, lookback_days) ==
    LET current_stock_history_full == SelectSeq(stock_data, LAMBDA r : r.date <= date)
    IN  IF lookback_days > 0
        THEN LastN(current_stock_history_full, lookback_days)
        ELSE current_stock_history_full

\* engine.py:403-405
CurrentSpotPrice(stock_history_slice) ==
    IF stock_history_slice = <<>> THEN None
    ELSE stock_history_slice[Len(stock_history_slice)].close

\* engine.py:352: sorted(groups.keys()), the chunk's distinct dates ascending.
RECURSIVE SortedDates(_)
SortedDates(dates) ==
    IF dates = {} THEN <<>>
    ELSE LET m == CHOOSE x \in dates : \A y \in dates : x <= y
         IN  <<m>> \o SortedDates(dates \ {m})

\* Mutant: the chunk's dates are taken in the order of its rows.
ChunkDates_RowOrder(chunk) == chunk

ChunkDates(chunk) == SortedDates({chunk[i] : i \in DOMAIN chunk})

\* Mutant: mark-to-market runs before the event handlers.
StageAfter_MtmFirst(stage) ==
    CASE stage = "exec" -> "mtm"
      [] stage = "mtm" -> "events"
      [] stage = "events" -> "strategy"
      [] OTHER -> "loop"

\* engine.py:395-422: the order of a day's stages.
StageAfter(stage) ==
    CASE stage = "exec" -> "events"
      [] stage = "events" -> "mtm"
      [] stage = "mtm" -> "strategy"
      [] OTHER -> "loop"

\* Mutant: the entry is taken from the valuation before today's.
DailyEntry_Stale(pf, date, signals, decision_options) ==
    [date |-> date,
     portfolio_value |-> IF Len(pf.history) < 2 THEN pf.cash
                         ELSE pf.history[Len(pf.history) - 1].portfolio_value,
     cash |-> IF Len(pf.history) < 2 THEN pf.cash
              ELSE pf.history[Len(pf.history) - 1].cash,
     signals |-> signals, decision_options |-> decision_options]

\* engine.py:295-338
DailyEntry(pf, date, signals, decision_options) ==
    [date |-> date,
     portfolio_value |-> IF pf.history = <<>> THEN pf.cash
                         ELSE pf.history[Len(pf.history)].portfolio_value,
     cash |-> IF pf.history = <<>> THEN pf.cash
              ELSE pf.history[Len(pf.history)].cash,
     signals |-> signals, decision_options |-> decision_options]

\* ------------------------------------------------ Backtester: the run
\* The chunked date columns a data source can stream: the days 1..NumDays cut
\* into two chunks, rows inside a chunk in descending order; an empty chunk;
\* a chunk of a day after the last one.
RECURSIVE Descending(_, _)
Descending(lo, hi) == IF hi < lo THEN <<>> ELSE <<hi>> \o Descending(lo, hi - 1)

Streams == [split |-> <<Descending(1, 1), Descending(2, NumDays)>>,
            whole |-> <<Descending(1, NumDays), <<>> >>,
            beyond |-> <<Descending(1, NumDays), <<NumDays + 1>> >>]

\* The source's stock tables, in date order, from the day before the first
\* simulated day: a close on every day, or no row on the day before the last.
StockTables ==
    [full |-> [i \in 1..(NumDays + 1) |-> [date |-> i - 1, close |-> 5]],
     gap |-> SelectSeq([i \in 1..(NumDays + 1) |-> [date |-> i - 1, close |-> 1]],
                       LAMBDA r : r.date # NumDays - 1)]

\* commission_per_contract and fees_pct settings.
NoCosts == [commission_per_contract |-> 0, fees_pct |-> Zero]

WithCosts == [commission_per_contract |-> 1, fees_pct |-> [n |-> 1, d |-> 10]]

\* engine.py:131: the handlers a run is given; without any, the
\* OptionExpirationHandler alone.
DefaultHandlers == <<"expiration">>

\* The runs explored: stream, end_date, stock table, cost settings, handlers
\* and the strategy's lookback_days.
Scenarios ==
    {[stream |-> Streams.split, end_date |-> NumDays,
      stock_data |-> StockTables.full, costs |-> WithCosts,
      event_handlers |-> DefaultHandlers, lookback_days |-> 0],
     [stream |-> Streams.whole, end_date |-> NumDays,
      stock_data |-> StockTables.gap, costs |-> NoCosts,
      event_handlers |-> <<"passes", "raises", "expiration">>,
      lookback_days |-> 3],
     [stream |-> Streams.split, end_date |-> NumDays - 1,
      stock_data |-> StockTables.gap, costs |-> WithCosts,
      event_handlers |-> <<"expiration", "raises">>, lookback_days |-> 0],
     [stream |-> Streams.beyond, end_date |-> NumDays - 1,
      stock_data |-> StockTables.full, costs |-> NoCosts,
      event_handlers |-> DefaultHandlers, lookback_days |-> 1]}

\* A signal with the optional price and metadata keys (strategy.py: the
\* signal dictionaries generate_signals returns).
OverrideSignal ==
    [ticker |-> "OPT_B", quantity |-> 1, price |-> 1,
     metadata |-> [type |-> "option", option_type |-> "PUT", strike |-> 9,
                   due_date |-> NumDays]]

\* What a strategy can return on a day.
SignalChoices ==
    {<<>>, <<OverrideSignal>>}
    \cup {<<[ticker |-> "OPT_A", quantity |-> q]>> : q \in Quantities}
    \cup {<<[ticker |-> "OPT_B", quantity |-> q]>> : q \in {0 - 1, 1}}
    \cup {<<[ticker |-> "OPT_A", quantity |-> 1],
            [ticker |-> "OPT_B", quantity |-> 0 - 1]>>}

RECURSIVE SignalsIssued(_)
SignalsIssued(history) ==
    IF history = <<>> THEN 0
    ELSE Len(Head(history).signals) + SignalsIssued(Tail(history))

NoCall ==
    [op |-> "none", ticker |-> "", quantity |-> 0, price |-> 0, spot |-> None,
     stock_history |-> <<>>]

StageCall(stage) == [NoCall EXCEPT !.op = stage]

\* The cache is not part of a run of the simulation core or of a ledger
\* client: no file, no calling process.
NoFiles ==
    [file |-> None, tmp |-> None, lock |-> None, inodes |-> 0, locked |-> {},
     initial |-> None]

NoProcesses == <<>>

\* engine.py:91-137.  The ledger is built from initial_cash and
\* stale_price_days (portfolio.py:42-47); the logger passed with them has no
\* part in its state.
InitWith(levels) ==
    /\ \E sc \in Scenarios, source \in BOOLEAN, dated \in BOOLEAN,
          verbosity \in levels :
          /\ config = [commission_per_contract |-> sc.costs.commission_per_contract,
                       fees_pct |-> sc.costs.fees_pct,
                       lookback_days |-> sc.lookback_days,
                       start_date |-> 1,
                       end_date |-> sc.end_date,
                       initial_cash |-> 100,
                       stale_price_days |-> 3,
                       has_data_source |-> source,
                       has_date_column |-> dated,
                       event_handlers |-> sc.event_handlers,
                       stock_table |-> sc.stock_data,
                       stock_data |-> <<>>,
                       options_data |-> sc.stream,
                       verbosity |-> verbosity]
          /\ stream = sc.stream
    /\ portfolio = NewPortfolio(config.initial_cash, config.stale_price_days)
    /\ prev = portfolio
    /\ lastCall = NoCall
    /\ cur_date = 0
    /\ pc = "constructed"
    /\ dates_in_chunk = <<>>
    /\ current_options = EmptyDict
    /\ daily_history = <<>>
    /\ day_log = <<>>
    /\ calls = 0
    /\ trade_log = <<>>
    /\ handler_log = <<>>
    /\ requests = <<>>
    /\ fs = NoFiles
    /\ procs = NoProcesses

\* engine.py:100: verbosity defaults to "low".
Init == InitWith({"low"})

\* Mutant: the progress bar swallows the first date it is given.
tqdm_SkipsFirst(iterable) == Tail(iterable)

\* tqdm(iterable): an iterator that yields the elements of iterable, in order,
\* and draws a progress bar.
tqdm(iterable) == [i \in 1..Len(iterable) |-> iterable[i]]

\* engine.py:359-362: what the day loop iterates over.
DateIterator(dates, verbosity) ==
    IF verbosity = "high" THEN tqdm(dates) ELSE dates

\* Mutant: the stock history is requested without the warm-up buffer.
DataStartDate_NoBuffer(start_date, lookback_days) == start_date - lookback_days

\* engine.py:119-125: the first date of the stock history to load, the
\* calendar-day buffer int(lookback_days * 1.5) + 15 before start_date.
DataStartDate(start_date, lookback_days) ==
    LET calendar_days_required ==
            IF lookback_days > 0 THEN (3 * lookback_days) \div 2 + 15 ELSE 0
    IN  start_date - calendar_days_required

\* engine.py:179-184: the two requests to the data source, in call order.
DataRequests(cfg) ==
    <<[stream |-> "options", start_date |-> cfg.start_date,
       end_date |-> cfg.end_date],
      [stream |-> "stock",
       start_date |-> DataStartDate(cfg.start_date, cfg.lookback_days),
       end_date |-> cfg.end_date]>>

\* data_loader.py:146-151: the stock rows the source yields for a request.
StockFeed(stock_table, request) ==
    SelectSeq(stock_table,
              LAMBDA r : request.start_date <= r.date /\ r.date <= request.end_date)

\* Mutant: the loop starts whatever the configuration.
SetupDataStreams_NoChecks ==
    /\ pc = "constructed"
    /\ pc' = "loop"
    /\ requests' = DataRequests(config)
    /\ config' = [config EXCEPT
                     !.stock_data = StockFeed(config.stock_table,
                                              DataRequests(config)[2])]
    /\ UNCHANGED <<trade_log, handler_log, fs, procs>>
    /\ UNCHANGED <<portfolio, lastCall, prev, cur_date, stream,
                   dates_in_chunk, current_options, daily_history, day_log, calls>>

\* engine.py:156-206, 344: without a data source run() raises ValueError
\* (engine.py:176-177); with one, it asks for the option chunks and loads the
\* stock history, and raises KeyError when that has no date column
\* (engine.py:186-188).
SetupDataStreams ==
    /\ pc = "constructed"
    /\ pc' = IF config.has_data_source /\ config.has_date_column
             THEN "loop" ELSE "raised"
    /\ IF config.has_data_source
       THEN /\ requests' = DataRequests(config)
            /\ config' = [config EXCEPT
                             !.stock_data = StockFeed(config.stock_table,
                                                      DataRequests(config)[2])]
       ELSE UNCHANGED <<requests, config>>
    /\ UNCHANGED <<trade_log, handler_log, fs, procs>>
    /\ UNCHANGED <<portfolio, lastCall, prev, cur_date, stream,
                   dates_in_chunk, current_options, daily_history, day_log, calls>>

\* engine.py:346-362: the next chunk, grouped by date, the dates sorted, and
\* the iterator of the day loop over them.
PullChunk ==
    /\ pc = "loop"
    /\ dates_in_chunk = <<>>
    /\ stream # <<>>
    /\ dates_in_chunk' = DateIterator(ChunkDates(Head(stream)), config.verbosity)
    /\ stream' = Tail(stream)
    /\ UNCHANGED <<trade_log, handler_log, requests, fs, procs>>
    /\ UNCHANGED <<portfolio, lastCall, prev, cur_date, pc, config,
                   current_options, daily_history, day_log, calls>>

\* engine.py:367-368: a date past end_date ends the chunk's loop.
BreakChunk ==
    /\ pc = "loop"
    /\ dates_in_chunk # <<>>
    /\ Head(dates_in_chunk) > config.end_date
    /\ dates_in_chunk' = <<>>
    /\ UNCHANGED <<trade_log, handler_log, requests, fs, procs>>
    /\ UNCHANGED <<portfolio, lastCall, prev, cur_date, pc, config, stream,
                   current_options, daily_history, day_log, calls>>

\* engine.py:359-371: the loop takes the chunk's next date and that day's rows.
StartDay ==
    /\ pc = "loop"
    /\ dates_in_chunk # <<>>
    /\ Head(dates_in_chunk) <= config.end_date
    /\ cur_date' = Head(dates_in_chunk)
    /\ dates_in_chunk' = Tail(dates_in_chunk)
    /\ current_options' \in ChainsOn(Head(dates_in_chunk))
    /\ day_log' = <<>>
    /\ handler_log' = <<>>
    /\ pc' = "exec"
    /\ UNCHANGED <<trade_log, requests, fs, procs>>
    /\ UNCHANGED <<portfolio, lastCall, prev, config, stream, daily_history, calls>>

\* engine.py:391-396: stage 1, the previous day's signals are filled.
ExecuteTrades ==
    /\ pc = "exec"
    /\ LET r == execute_trades(portfolio, cur_date, SignalsToExecute(daily_history),
                               current_options, DecisionOptions(daily_history),
                               config)
       IN  /\ portfolio' = r.pf
           /\ pc' = IF r.raised THEN "raised" ELSE StageAfter("exec")
    /\ prev' = portfolio
    /\ lastCall' = StageCall("exec")
    /\ day_log' = Append(day_log, "exec")
    /\ UNCHANGED <<trade_log, handler_log, requests, fs, procs>>
    /\ UNCHANGED <<cur_date, config, stream, dates_in_chunk, current_options,
                   daily_history, calls>>

\* engine.py:397-400, 266-293: stage 2, the registered handlers.
HandleEvents ==
    /\ pc = "events"
    /\ LET r == handle_events(config.event_handlers, portfolio, cur_date,
                              StockHistorySlice(config.stock_data, cur_date,
                                                config.lookback_days))
       IN  /\ portfolio' = r.pf
           /\ handler_log' = r.invoked
    /\ prev' = portfolio
    /\ lastCall' = StageCall("events")
    /\ day_log' = Append(day_log, "events")
    /\ pc' = StageAfter("events")
    /\ UNCHANGED <<trade_log, requests, fs, procs>>
    /\ UNCHANGED <<cur_date, config, stream, dates_in_chunk, current_options,
                   daily_history, calls>>

\* engine.py:402-412: stage 3.
MarkToMarket ==
    /\ pc = "mtm"
    /\ portfolio' = mark_to_market(portfolio, cur_date, current_options,
                        CurrentSpotPrice(StockHistorySlice(config.stock_data,
                                             cur_date, config.lookback_days)))
    /\ prev' = portfolio
    /\ lastCall' = StageCall("mtm")
    /\ day_log' = Append(day_log, "mtm")
    /\ pc' = StageAfter("mtm")
    /\ UNCHANGED <<trade_log, handler_log, requests, fs, procs>>
    /\ UNCHANGED <<cur_date, config, stream, dates_in_chunk, current_options,
                   daily_history, calls>>

\* engine.py:414-422: stage 4, the strategy's signals are stored for tomorrow.
GenerateSignals ==
    /\ pc = "strategy"
    /\ \E new_signals \in SignalChoices :
          /\ SignalsIssued(daily_history) + Len(new_signals) <= MaxSignals
          /\ daily_history' = Append(daily_history,
                                     DailyEntry(portfolio, cur_date, new_signals,
                                                current_options))
    /\ prev' = portfolio
    /\ lastCall' = [StageCall("strategy") EXCEPT
                       !.stock_history = StockHistorySlice(config.stock_data,
                                             cur_date, config.lookback_days)]
    /\ day_log' = Append(day_log, "strategy")
    /\ pc' = StageAfter("strategy")
    /\ UNCHANGED <<trade_log, handler_log, requests, fs, procs>>
    /\ UNCHANGED <<portfolio, cur_date, config, stream, dates_in_chunk,
                   current_options, calls>>

\* engine.py:434-435
FinalSpotPrice(stock_data, final_date) ==
    LET final_spot_row == StockRowsOn(stock_data, final_date)
    IN  IF final_spot_row = <<>> THEN None ELSE final_spot_row[1].close

\* engine.py:463: the trade log run() returns is the ledger's trade history.
final_trades(pf) == pf.trades

\* engine.py:424-465: the terminal mark-to-market and the results.
Finish ==
    /\ pc = "loop"
    /\ dates_in_chunk = <<>>
    /\ stream = <<>>
    /\ pc' = "done"
    /\ IF daily_history = <<>>
       THEN UNCHANGED <<portfolio, daily_history, prev, lastCall>>
       ELSE LET last_day_data == daily_history[Len(daily_history)]
                final_spot_price == FinalSpotPrice(config.stock_data,
                                                   last_day_data.date)
            IN  IF DOMAIN last_day_data.decision_options # {}
                   /\ final_spot_price # None
                THEN /\ portfolio' = mark_to_market(portfolio, last_day_data.date,
                                                    last_day_data.decision_options,
                                                    final_spot_price)
                     /\ prev' = portfolio
                     /\ lastCall' = StageCall("final_mtm")
                     /\ daily_history' =
                            [daily_history EXCEPT
                                ![Len(daily_history)].portfolio_value =
                                    portfolio'.history[Len(portfolio'.history)]
                                        .portfolio_value,
                                ![Len(daily_history)].cash =
                                    portfolio'.history[Len(portfolio'.history)].cash]
                ELSE UNCHANGED <<portfolio, daily_history, prev, lastCall>>
    /\ UNCHANGED <<trade_log, handler_log, requests, fs, procs>>
    /\ UNCHANGED <<cur_date, config, stream, dates_in_chunk, current_options,
                   day_log, calls>>

Next ==
    \/ SetupDataStreams
    \/ PullChunk
    \/ BreakChunk
    \/ StartDay
    \/ ExecuteTrades
    \/ HandleEvents
    \/ MarkToMarket
    \/ GenerateSignals
    \/ Finish

Spec == Init /\ [][Next]_vars

\* engine.py:100: the runs at each of the three verbosity levels.
Verbosities == {"high", "moderate", "low"}

SpecVerbosity == InitWith(Verbosities) /\ [][Next]_vars

\* ------------------------------------------- the ledger driven directly
\* A client of Portfolio (a test, a script) calling its public methods.
InitClient ==
    /\ config = [commission_per_contract |-> 0, fees_pct |-> Zero,
                 lookback_days |-> 0, start_date |-> 1, end_date |-> NumDays,
                 initial_cash |-> 100, stock_table |-> <<>>,
                 stale_price_days |-> 1, has_data_source |-> FALSE,
                 has_date_column |-> TRUE,
                 event_handlers |-> <<>>,
                 stock_data |-> <<>>, options_data |-> <<>>,
                 verbosity |-> "low"]
    /\ stream = <<>>
    /\ portfolio = NewPortfolio(config.initial_cash, config.stale_price_days)
    /\ prev = portfolio
    /\ lastCall = NoCall
    /\ cur_date = 1
    /\ pc = "client"
    /\ dates_in_chunk = <<>>
    /\ current_options = EmptyDict
    /\ daily_history = <<>>
    /\ day_log = <<>>
    /\ calls = 0
    /\ trade_log = <<>>
    /\ handler_log = <<>>
    /\ requests = <<>>
    /\ fs = NoFiles
    /\ procs = NoProcesses

\* The metadata a client passes for a ticker (portfolio.py:74-82).
OptionMeta(ticker) ==
    IF ticker = "OPT_A"
    THEN [type |-> "option", option_type |-> "CALL", strike |-> 3, expiry_date |-> 2]
    ELSE [type |-> "option", option_type |-> "PUT", strike |-> 3, expiry_date |-> 2]

LedgerMeta(ticker) ==
    IF ticker = "OPT_A" THEN OptionMeta(ticker) ELSE [type |-> "stock"]

\* portfolio.py:49-56: one add_trade call with the given inputs.
ClientAddTrade(ticker, quantity, price, metadata) ==
    /\ pc = "client"
    /\ calls < MaxCalls
    /\ portfolio' = add_trade(portfolio, cur_date, ticker, quantity, price, metadata)
    /\ prev' = portfolio
    /\ lastCall' = [NoCall EXCEPT !.op = "add_trade", !.ticker = ticker,
                                    !.quantity = quantity, !.price = price]
    /\ calls' = calls + 1
    /\ UNCHANGED <<trade_log, handler_log, requests, fs, procs>>
    /\ UNCHANGED <<cur_date, pc, config, stream, dates_in_chunk, current_options,
                   daily_history, day_log>>

\* Trades of either sign at two prices.
LedgerTrade ==
    \E ticker \in Tickers, quantity \in Quantities, price \in {2, 5} :
        ClientAddTrade(ticker, quantity, price, LedgerMeta(ticker))

NextLedger == LedgerTrade

SpecLedger == InitClient /\ [][NextLedger]_vars

\* Trades that open option positions, with or without metadata.
ExpiryTrade ==
    \E ticker \in Tickers, quantity \in Quantities :
        \E metadata \in {OptionMeta(ticker), EmptyDict} :
            ClientAddTrade(ticker, quantity, 2, metadata)

\* events.py:28: the handler called on a date not before the client's, with a
\* stock slice that ends with that date's row or has no row for it.
ExpiryHandle ==
    /\ pc = "client"
    /\ calls < MaxCalls
    /\ \E d \in cur_date..NumDays, spot \in {None, 1, 5} :
          LET earlier == <<[date |-> d - 1, close |-> 9]>>
              stock_data == IF spot = None THEN earlier
                            ELSE earlier \o <<[date |-> d, close |-> spot]>>
          IN  /\ portfolio' = handle(portfolio, d, stock_data)
              /\ cur_date' = d
              /\ lastCall' = [NoCall EXCEPT !.op = "handle", !.spot = spot]
    /\ prev' = portfolio
    /\ calls' = calls + 1
    /\ UNCHANGED <<trade_log, handler_log, requests, fs, procs>>
    /\ UNCHANGED <<pc, config, stream, dates_in_chunk, current_options,
                   daily_history, day_log>>

NextExpiry == ExpiryTrade \/ ExpiryHandle

SpecExpiry == InitClient /\ [][NextExpiry]_vars

\* The metadata a client's trades carry when the ledger is then valued: an
\* option with strike and type, an option without its strike or without its
\* option_type, or none.
MtmMeta(ticker) ==
    IF ticker = "OPT_A"
    THEN {OptionMeta(ticker), [type |-> "option", option_type |-> "CALL"]}
    ELSE {OptionMeta(ticker), [type |-> "option", strike |-> 3], EmptyDict}

\* Trades that open or change the positions to be valued, on the client's
\* date or the day after it.
MtmTrade ==
    /\ pc = "client"
    /\ calls < MaxCalls
    /\ \E d \in {cur_date, cur_date + 1} \cap Days, ticker \in Tickers,
          quantity \in {0 - 1, 1} :
          \E metadata \in MtmMeta(ticker) :
              /\ portfolio' = add_trade(portfolio, d, ticker, quantity, 1, metadata)
              /\ cur_date' = d
              /\ lastCall' = [NoCall EXCEPT !.op = "add_trade", !.ticker = ticker,
                                    !.quantity = quantity, !.price = 1]
    /\ prev' = portfolio
    /\ calls' = calls + 1
    /\ UNCHANGED <<trade_log, handler_log, requests, fs, procs>>
    /\ UNCHANGED <<pc, config, stream, dates_in_chunk, current_options,
                   daily_history, day_log>>

\* The market snapshots a valuation is given: no row, a close for OPT_A, a
\* NaN close for OPT_B next to a close for OPT_A.
MtmSnapshots ==
    {EmptyDict,
     [t \in {"OPT_A"} |-> [ticker |-> t, close |-> 4]],
     [t \in Tickers |-> [ticker |-> t, close |-> IF t = "OPT_A" THEN 4 ELSE NaN]]}

\* portfolio.py:172: mark_to_market called on a date not before the client's,
\* with a market snapshot and with or without a spot price.
MtmValue ==
    /\ pc = "client"
    /\ calls < MaxCalls
    /\ \E d \in cur_date..(NumDays + 2), market_data \in MtmSnapshots,
          spot \in {None, 1, 5} :
          /\ portfolio' = mark_to_market(portfolio, d, market_data, spot)
          /\ cur_date' = d
          /\ current_options' = market_data
          /\ lastCall' = [NoCall EXCEPT !.op = "mark_to_market", !.spot = spot]
    /\ prev' = portfolio
    /\ calls' = calls + 1
    /\ UNCHANGED <<trade_log, handler_log, requests, fs, procs>>
    /\ UNCHANGED <<pc, config, stream, dates_in_chunk, daily_history, day_log>>

NextMtm == MtmTrade \/ MtmValue

\* portfolio.py:172: mark_to_market called once more with the date, market
\* snapshot and spot price of the call just made.
MtmRepeat ==
    /\ pc = "client"
    /\ calls < MaxCalls
    /\ lastCall.op \in {"mark_to_market", "mark_to_market_again"}
    /\ portfolio' = mark_to_market(portfolio, cur_date, current_options,
                                   lastCall.spot)
    /\ lastCall' = [lastCall EXCEPT !.op = "mark_to_market_again"]
    /\ prev' = portfolio
    /\ calls' = calls + 1
    /\ UNCHANGED <<trade_log, handler_log, requests, fs, procs>>
    /\ UNCHANGED <<cur_date, pc, config, stream, dates_in_chunk, current_options,
                   daily_history, day_log>>

NextMtmRepeat == MtmTrade \/ MtmValue \/ MtmRepeat

SpecMtmRepeat == InitClient /\ [][NextMtmRepeat]_vars

SpecMtm == InitClient /\ [][NextMtm]_vars

\* portfolio.py:291-311: `return self.positions`.  The caller is handed the
\* ledger's own dictionary, not a copy of it.
get_positions(pf) == pf.positions

\* What a caller can do to a dictionary it holds: overwrite the quantity of an
\* entry, or delete the entry.
CallerWrite(mapping, ticker, kind) ==
    IF kind = "set_quantity"
    THEN [mapping EXCEPT ![ticker].quantity = 0]
    ELSE DictRemove(mapping, ticker)

\* A strategy or handler writes into the mapping get_positions() returned.
\* The mapping is self.positions itself (portfolio.py:311), so the write is a
\* write to the ledger's positions.
WriteReturnedPositions ==
    /\ pc = "client"
    /\ calls < MaxCalls
    /\ \E ticker \in DOMAIN get_positions(portfolio),
          kind \in {"set_quantity", "delete"} :
          /\ portfolio' =
                [portfolio EXCEPT
                   !.positions = CallerWrite(get_positions(portfolio), ticker, kind),
                   !.order = IF kind = "delete" THEN SeqRemove(@, ticker) ELSE @]
          /\ lastCall' = [NoCall EXCEPT !.op = "write_returned_positions",
                                          !.ticker = ticker]
    /\ prev' = portfolio
    /\ calls' = calls + 1
    /\ UNCHANGED <<trade_log, handler_log, requests, fs, procs>>
    /\ UNCHANGED <<cur_date, pc, config, stream, dates_in_chunk, current_options,
                   daily_history, day_log>>

\* portfolio.py:291-311: a caller only reads the mapping get_positions()
\* returned.
ReadReturnedPositions ==
    /\ pc = "client"
    /\ calls < MaxCalls
    /\ lastCall' = [NoCall EXCEPT !.op = "read_returned_positions"]
    /\ prev' = portfolio
    /\ calls' = calls + 1
    /\ UNCHANGED <<trade_log, handler_log, requests, fs, procs>>
    /\ UNCHANGED <<portfolio, cur_date, pc, config, stream, dates_in_chunk,
                   current_options, daily_history, day_log>>

\* A client that trades, lets options expire and values the ledger.
NextHistory == ExpiryTrade \/ ExpiryHandle \/ MtmValue

SpecHistory == InitClient /\ [][NextHistory]_vars

\* Trades on one ticker whose metadata names the same option or one with
\* another strike (portfolio.py:56: metadata is whatever the caller passes).
RestatedTrade ==
    \E ticker \in Tickers, quantity \in Quantities :
        \E metadata \in {OptionMeta(ticker),
                          [OptionMeta(ticker) EXCEPT !.strike = 5],
                          EmptyDict} :
            ClientAddTrade(ticker, quantity, 2, metadata)

NextRestated == RestatedTrade

SpecRestated == InitClient /\ [][NextRestated]_vars

NextView == LedgerTrade \/ ReadReturnedPositions \/ WriteReturnedPositions

SpecView == InitClient /\ [][NextView]_vars

\* ---------------------------------------------------------- cache_manager
\* The processes that share the cache directory, all using one key.
Procs == {1, 2}

\* Everything but the cache's files and callers.
coreVars == <<portfolio, lastCall, prev, cur_date, pc, config, stream,
              dates_in_chunk, current_options, daily_history, day_log, calls,
              trade_log, handler_log, requests>>

\* A process between calls: MEMORY_CACHE (cache_manager.py:10) empty, no lock
\* file open, nothing returned yet.
IdleProcess ==
    [pc |-> "idle", fd |-> None, memory |-> None, calls |-> 0, df |-> None,
     result |-> [op |-> "none", value |-> None, from_memory |-> FALSE]]

\* The cache directory before the calls: the key's parquet file holds the data
\* 0 or does not exist; no temp file, no lock file.
InitCache ==
    /\ pc = "cache"
    /\ \E existing \in {None, 0} :
          fs = [NoFiles EXCEPT !.file = existing, !.initial = existing]
    /\ procs = [p \in Procs |-> IdleProcess]
    /\ config = [initial_cash |-> 0, stale_price_days |-> 0]
    /\ portfolio = NewPortfolio(config.initial_cash, config.stale_price_days)
    /\ prev = portfolio
    /\ lastCall = NoCall
    /\ cur_date = 0
    /\ stream = <<>>
    /\ dates_in_chunk = <<>>
    /\ current_options = EmptyDict
    /\ daily_history = <<>>
    /\ day_log = <<>>
    /\ calls = 0
    /\ trade_log = <<>>
    /\ handler_log = <<>>
    /\ requests = <<>>

\* The process p moves to `next` with the fields of `changes` replaced.
Moved(p, next, changes) ==
    [procs EXCEPT ![p] = [f \in DOMAIN @ |->
                            IF f = "pc" THEN next
                            ELSE IF f \in DOMAIN changes THEN changes[f]
                            ELSE @[f]]]

\* The call of p returns: its result is recorded and p is idle again.
Returned(p, op, value, from_memory, changes) ==
    Moved(p, "idle",
          DictUpdate(changes,
                     [calls |-> procs[p].calls + 1,
                      result |-> [op |-> op, value |-> value,
                                  from_memory |-> from_memory]]))

\* cache_manager.py:71, 111: entering `with lock` opens the file at lock_path,
\* creating it when there is none; the process then holds that file, whatever
\* lock_path names later.
OpenLockFile(p, next) ==
    /\ fs' = IF fs.lock = None
             THEN [fs EXCEPT !.lock = fs.inodes + 1, !.inodes = fs.inodes + 1]
             ELSE fs
    /\ procs' = Moved(p, next, [fd |-> fs'.lock])

\* cache_manager.py:71, 111: the exclusive lock on the opened file is granted
\* when no other process holds a lock on that same file.
AcquireLock(p, next) ==
    /\ procs[p].fd \notin fs.locked
    /\ fs' = [fs EXCEPT !.locked = @ \cup {procs[p].fd}]
    /\ procs' = Moved(p, next, EmptyDict)

\* A step of a process in the cache changes the cache's files and callers only.
CacheStep == pc = "cache" /\ UNCHANGED coreVars

\* cache_manager.py:86-102: set_to_cache(key, df) with a non-empty df; the
\* data goes to MEMORY_CACHE first.
CallSet(p) ==
    /\ CacheStep
    /\ procs[p].pc = "idle"
    /\ procs[p].calls < MaxCacheCalls
    /\ procs' = Moved(p, "set_open", [df |-> p, memory |-> p])
    /\ UNCHANGED fs

SetOpen(p) == CacheStep /\ procs[p].pc = "set_open" /\ OpenLockFile(p, "set_acquire")

SetAcquire(p) == CacheStep /\ procs[p].pc = "set_acquire" /\ AcquireLock(p, "set_write")

\* cache_manager.py:113-115: df.to_parquet(temp_path)
SetWrite(p) ==
    /\ CacheStep
    /\ procs[p].pc = "set_write"
    /\ fs' = [fs EXCEPT !.tmp = procs[p].df]
    /\ procs' = Moved(p, "set_exists", EmptyDict)

\* cache_manager.py:117: if file_path.exists()
SetExists(p) ==
    /\ CacheStep
    /\ procs[p].pc = "set_exists"
    /\ procs' = Moved(p, IF fs.file # None THEN "set_unlink" ELSE "set_rename",
                      EmptyDict)
    /\ UNCHANGED fs

\* cache_manager.py:118: file_path.unlink(), FileNotFoundError when the file
\* has gone since the test.
SetUnlink(p) ==
    /\ CacheStep
    /\ procs[p].pc = "set_unlink"
    /\ IF fs.file = None
       THEN /\ procs' = Moved(p, "set_fail", EmptyDict)
            /\ UNCHANGED fs
       ELSE /\ fs' = [fs EXCEPT !.file = None]
            /\ procs' = Moved(p, "set_rename", EmptyDict)

\* cache_manager.py:119: temp_path.rename(file_path), FileNotFoundError when
\* there is no temp file.
SetRename(p) ==
    /\ CacheStep
    /\ procs[p].pc = "set_rename"
    /\ IF fs.tmp = None
       THEN /\ procs' = Moved(p, "set_fail", EmptyDict)
            /\ UNCHANGED fs
       ELSE /\ fs' = [fs EXCEPT !.file = fs.tmp, !.tmp = None]
            /\ procs' = Moved(p, "set_release",
                              [result |-> [op |-> "set", value |-> procs[p].df,
                                           from_memory |-> FALSE]])

\* cache_manager.py:120-126: the temp file is removed and RuntimeError raised.
SetFail(p) ==
    /\ CacheStep
    /\ procs[p].pc = "set_fail"
    /\ fs' = [fs EXCEPT !.tmp = None]
    /\ procs' = Moved(p, "set_release",
                      [result |-> [op |-> "set", value |-> "RuntimeError",
                                   from_memory |-> FALSE]])

\* cache_manager.py:111: leaving `with lock`.
SetRelease(p) ==
    /\ CacheStep
    /\ procs[p].pc = "set_release"
    /\ fs' = [fs EXCEPT !.locked = @ \ {procs[p].fd}]
    /\ procs' = Moved(p, "set_cleanup", [fd |-> None])

\* cache_manager.py:127-133: the lock file is unlinked after the lock was
\* released.
SetCleanup(p) ==
    /\ CacheStep
    /\ procs[p].pc = "set_cleanup"
    /\ fs' = [fs EXCEPT !.lock = None]
    /\ procs' = Returned(p, procs[p].result.op, procs[p].result.value, FALSE,
                         EmptyDict)

\* cache_manager.py:57-58: get_from_cache(key) answered from MEMORY_CACHE, or
\* going on to the files.
CallGet(p) ==
    /\ CacheStep
    /\ procs[p].pc = "idle"
    /\ procs[p].calls < MaxCacheCalls
    /\ procs' = IF procs[p].memory # None
                THEN Returned(p, "get", procs[p].memory, TRUE, EmptyDict)
                ELSE Moved(p, "get_exists", EmptyDict)
    /\ UNCHANGED fs

\* cache_manager.py:65-66: no file, None is returned; the test is made before
\* the lock is taken.
GetExists(p) ==
    /\ CacheStep
    /\ procs[p].pc = "get_exists"
    /\ procs' = IF fs.file = None
                THEN Returned(p, "get", None, FALSE, EmptyDict)
                ELSE Moved(p, "get_open", EmptyDict)
    /\ UNCHANGED fs

GetOpen(p) == CacheStep /\ procs[p].pc = "get_open" /\ OpenLockFile(p, "get_acquire")

GetAcquire(p) == CacheStep /\ procs[p].pc = "get_acquire" /\ AcquireLock(p, "get_read")

\* cache_manager.py:72-81: pd.read_parquet(file_path); an error reading it
\* gives None.
GetRead(p) ==
    /\ CacheStep
    /\ procs[p].pc = "get_read"
    /\ procs' = Moved(p, "get_release",
                      [result |-> [op |-> "get", value |-> fs.file,
                                   from_memory |-> FALSE],
                       memory |-> fs.file])
    /\ UNCHANGED fs

\* cache_manager.py:71: leaving `with lock`; the lock file stays.
GetRelease(p) ==
    /\ CacheStep
    /\ procs[p].pc = "get_release"
    /\ fs' = [fs EXCEPT !.locked = @ \ {procs[p].fd}]
    /\ procs' = Returned(p, "get", procs[p].result.value, FALSE, [fd |-> None])

NextCache ==
    \E p \in Procs :
        \/ CallSet(p) \/ SetOpen(p) \/ SetAcquire(p) \/ SetWrite(p)
        \/ SetExists(p) \/ SetUnlink(p) \/ SetRename(p) \/ SetFail(p)
        \/ SetRelease(p) \/ SetCleanup(p)
        \/ CallGet(p) \/ GetExists(p) \/ GetOpen(p) \/ GetAcquire(p)
        \/ GetRead(p) \/ GetRelease(p)

SpecCache == InitCache /\ [][NextCache]_vars

\* ---------------------------------------------------------------- claims
TradeIndexes == DOMAIN portfolio.trades

\* The records add_trade appended during the last operation.
NewTradeIndexes == (Len(prev.trades) + 1)..Len(portfolio.trades)

HasAction(tr, actions) == "action" \in DOMAIN tr /\ tr.action \in actions

\* A trade record booked by _execute_trades.
IsDeferredTrade(tr) == HasAction(tr, {"BUY", "SELL"})

\* A trade record booked by the expiration handler.
IsSettlement(tr) == HasAction(tr, {"EXPIRE_OTM", "EXERCISE_ITM"})

HasSignal(signals, ticker, quantity) ==
    \E j \in DOMAIN signals :
        signals[j].ticker = ticker /\ signals[j].quantity = quantity

\* Entry i of daily_history is the simulated day just before the day d.
DayBefore(i, d) ==
    \/ i < Len(daily_history) /\ daily_history[i + 1].date = d
    \/ i = Len(daily_history) /\ cur_date = d

\* C1: every trade booked for a strategy signal carries the date of the
\* simulated day that follows the day the signal was returned on, never the
\* date of the signal's own day.
C1_NextDayExecution ==
    \A k \in TradeIndexes :
        LET tr == portfolio.trades[k]
        IN  IsDeferredTrade(tr) =>
                \E i \in DOMAIN daily_history :
                    /\ HasSignal(daily_history[i].signals, tr.ticker, tr.quantity)
                    /\ daily_history[i].date # tr.date
                    /\ DayBefore(i, tr.date)

C1_Witness ==
    /\ pc = "done"
    /\ \E k \in TradeIndexes :
          /\ IsDeferredTrade(portfolio.trades[k])
          /\ portfolio.trades[k].date = 3
          /\ HasSignal(daily_history[2].signals, portfolio.trades[k].ticker,
                       portfolio.trades[k].quantity)

C3_PessimisticFill ==
    lastCall.op = "exec" =>
        \A k \in NewTradeIndexes :
            LET tr == portfolio.trades[k]
            IN  tr.price = IF tr.quantity > 0
                           THEN current_options[tr.ticker].high
                           ELSE current_options[tr.ticker].low

C3_Witness ==
    /\ lastCall.op = "exec"
    /\ \E k \in NewTradeIndexes :
          LET tr == portfolio.trades[k]
          IN  /\ tr.quantity > 0
              /\ tr.price = current_options[tr.ticker].high
              /\ tr.price # DecisionOptions(daily_history)[tr.ticker].high
              /\ tr.price # DecisionOptions(daily_history)[tr.ticker].close

\* Sum of quantity*price + commission + fees over the trade records, as a
\* fraction.
RECURSIVE TotalTradeCost(_)
TotalTradeCost(trades) ==
    IF trades = <<>> THEN Zero
    ELSE LET tr == Head(trades)
             rest == TotalTradeCost(Tail(trades))
             commission == IF "commission" \in DOMAIN tr THEN tr.commission ELSE 0
             fees == IF "fees" \in DOMAIN tr THEN tr.fees ELSE Zero
             whole == tr.quantity * tr.price + commission
         IN  Frac((whole * fees.d + fees.n) * rest.d + rest.n * fees.d,
                  fees.d * rest.d)

\* C4: cash equals initial_cash minus the sum, over the executed trades, of
\* quantity*price + commission + fees.
C4_CashInvariant ==
    LET total == TotalTradeCost(portfolio.trades)
    IN  portfolio.cash * total.d = config.initial_cash * total.d - total.n

RECURSIVE RunningQuantity(_, _)
RunningQuantity(trades, ticker) ==
    IF trades = <<>> THEN 0
    ELSE (IF Head(trades).ticker = ticker THEN Head(trades).quantity ELSE 0)
         + RunningQuantity(Tail(trades), ticker)

\* C5: a ticker is in the ledger exactly when the running sum of its signed
\* trade quantities is non-zero, and the stored quantity is that sum.
C5_LedgerInvariant ==
    \A t \in Tickers :
        LET running == RunningQuantity(portfolio.trades, t)
        IN  /\ (t \in DOMAIN portfolio.positions) <=> (running # 0)
            /\ t \in DOMAIN portfolio.positions =>
                  portfolio.positions[t].quantity = running

C5_Witness ==
    \E t \in Tickers, u \in Tickers :
        /\ t \notin DOMAIN portfolio.positions
        /\ RunningQuantity(portfolio.trades, t) = 0
        /\ \E k \in TradeIndexes : portfolio.trades[k].ticker = t
        /\ u \in DOMAIN portfolio.positions
        /\ portfolio.positions[u].quantity < 0

\* The last call was add_trade on a position that existed and stays open.
SellOnOpenPosition ==
    /\ lastCall.op = "add_trade"
    /\ lastCall.quantity < 0
    /\ lastCall.ticker \in DOMAIN prev.positions
    /\ lastCall.ticker \in DOMAIN portfolio.positions

\* C6: a sell that does not close the position leaves its cost_basis as it was.
C6_SellKeepsCostBasis ==
    SellOnOpenPosition =>
        portfolio.positions[lastCall.ticker].cost_basis
            = prev.positions[lastCall.ticker].cost_basis

C6_Witness ==
    /\ SellOnOpenPosition
    /\ prev.positions[lastCall.ticker].cost_basis # Zero
    /\ prev.positions[lastCall.ticker].cost_basis.n
          # lastCall.price * prev.positions[lastCall.ticker].cost_basis.d
    /\ portfolio.positions[lastCall.ticker].cost_basis
          = prev.positions[lastCall.ticker].cost_basis

\* The last call was a buy that leaves the position open.
BuyLeavingOpen ==
    /\ lastCall.op = "add_trade"
    /\ lastCall.quantity > 0
    /\ lastCall.ticker \in DOMAIN portfolio.positions

OldQuantity ==
    IF lastCall.ticker \in DOMAIN prev.positions
    THEN prev.positions[lastCall.ticker].quantity ELSE 0

OldCostBasis ==
    IF lastCall.ticker \in DOMAIN prev.positions
    THEN prev.positions[lastCall.ticker].cost_basis ELSE Zero

\* cost_basis * new_qty = old_cost_basis * old_qty + quantity * price, with the
\* fractions cross-multiplied.
WeightedAverageHolds ==
    LET new == portfolio.positions[lastCall.ticker]
    IN  new.cost_basis.n * new.quantity * OldCostBasis.d
            = (OldCostBasis.n * OldQuantity
                  + lastCall.quantity * lastCall.price * OldCostBasis.d)
              * new.cost_basis.d

\* C7 as stated: after every buy that leaves the position open, a buy that
\* partially covers a short included, cost_basis * new_qty equals
\* old_cost_basis * old_qty + quantity * price.
C7_Original == BuyLeavingOpen => WeightedAverageHolds

\* C7 amended: the weighted-average equation holds after a buy that leaves the
\* position long; a buy that leaves it short sets cost_basis to 0.
C7_CostBasisOnBuy ==
    BuyLeavingOpen =>
        IF portfolio.positions[lastCall.ticker].quantity > 0
        THEN WeightedAverageHolds
        ELSE portfolio.positions[lastCall.ticker].cost_basis = Zero

C7_Witness ==
    /\ BuyLeavingOpen
    /\ OldQuantity > 0
    /\ OldCostBasis.n # lastCall.price * OldCostBasis.d
    /\ portfolio.positions[lastCall.ticker].cost_basis # OldCostBasis
    /\ portfolio.positions[lastCall.ticker].cost_basis.d > 1

\* The intrinsic value of an option position at a spot price, by the CALL and
\* PUT formulas.
ExpectedIntrinsic(position, spot) ==
    IF position.metadata.option_type = "CALL"
    THEN Max(0, spot - position.metadata.strike)
    ELSE Max(0, position.metadata.strike - spot)

\* An option position with a CALL/PUT type and a strike expiring on the date d.
ExpiringOption(position, d) ==
    /\ {"type", "expiry_date", "option_type", "strike"} \subseteq DOMAIN position.metadata
    /\ position.metadata.type = "option"
    /\ position.metadata.option_type \in {"CALL", "PUT"}
    /\ position.metadata.expiry_date = d

NewTradesOf(ticker) == {k \in NewTradeIndexes : portfolio.trades[k].ticker = ticker}

\* The last call was the expiration handler, with a spot close for its date.
HandledWithSpot == lastCall.op = "handle" /\ lastCall.spot # None

\* C8: the handler closes every option position expiring on its date when the
\* date has a spot close: the ticker leaves the ledger and exactly one trade is
\* added for it, dated that day, with the negated quantity, at intrinsic value.
C8_ExpirationSettles ==
    HandledWithSpot =>
        \A t \in DOMAIN prev.positions :
            ExpiringOption(prev.positions[t], cur_date) =>
                /\ t \notin DOMAIN portfolio.positions
                /\ Cardinality(NewTradesOf(t)) = 1
                /\ \A k \in NewTradesOf(t) :
                      /\ portfolio.trades[k].date = cur_date
                      /\ portfolio.trades[k].quantity = 0 - prev.positions[t].quantity
                      /\ portfolio.trades[k].price
                            = ExpectedIntrinsic(prev.positions[t], lastCall.spot)

C8_Witness ==
    /\ HandledWithSpot
    /\ \E t \in DOMAIN prev.positions :
          /\ ExpiringOption(prev.positions[t], cur_date)
          /\ prev.positions[t].quantity < 0
          /\ t \notin DOMAIN portfolio.positions
          /\ \E k \in NewTradesOf(t) : portfolio.trades[k].price > 0
    /\ \E u \in DOMAIN prev.positions : u \in DOMAIN portfolio.positions

\* The chain's due date of a position booked by _execute_trades.
DueOn(position, d) ==
    "due_date" \in DOMAIN position.metadata /\ position.metadata.due_date = d

SpotCloseExists(d) == StockRowsOn(config.stock_data, d) # <<>>

\* C9: when the strategy is invoked on a day D that has a spot close, no
\* position opened by deferred execution whose instrument is due on D is still
\* in the ledger.
C9_SettledBeforeStrategy ==
    (pc = "strategy" /\ SpotCloseExists(cur_date)) =>
        \A t \in DOMAIN portfolio.positions :
            ~DueOn(portfolio.positions[t], cur_date)

\* C10: a settlement trade is tagged EXPIRE_OTM exactly when the intrinsic
\* value of the settled position at the day's spot is 0, and EXERCISE_ITM
\* exactly when it is positive.
C10_SettlementTag ==
    HandledWithSpot =>
        \A t \in DOMAIN prev.positions :
            ExpiringOption(prev.positions[t], cur_date) =>
                \A k \in NewTradesOf(t) :
                    LET intrinsic == ExpectedIntrinsic(prev.positions[t], lastCall.spot)
                        tr == portfolio.trades[k]
                    IN  /\ IsSettlement(tr)
                        /\ (tr.action = "EXPIRE_OTM") <=> (intrinsic = 0)
                        /\ (tr.action = "EXERCISE_ITM") <=> (intrinsic > 0)

C10_Witness ==
    /\ HandledWithSpot
    /\ \E k \in NewTradeIndexes, j \in NewTradeIndexes :
          /\ HasAction(portfolio.trades[k], {"EXPIRE_OTM"})
          /\ portfolio.trades[k].price = 0
          /\ HasAction(portfolio.trades[j], {"EXERCISE_ITM"})
          /\ portfolio.trades[j].price > 0

\* The last call was mark_to_market.
Valued == lastCall.op = "mark_to_market"

\* The valuation's market snapshot has no usable close for the ticker.
NoFreshPrice(t) == t \notin DOMAIN current_options \/ current_options[t].close = NaN

\* Days between the position's last price date and the valuation date.
PriceGap(t) == cur_date - prev.positions[t].last_price_date

\* An option position with a strike and a CALL/PUT type.
KnownOption(position) ==
    /\ {"type", "option_type", "strike"} \subseteq DOMAIN position.metadata
    /\ position.metadata.type = "option"
    /\ position.metadata.option_type \in {"CALL", "PUT"}

\* C11: without a fresh price, a position whose last price is exactly
\* stale_price_days old is valued at that last price; one day older, an option
\* with strike and type, given a spot price, is valued at intrinsic value.
C11_ValuationTiering ==
    Valued =>
        \A t \in DOMAIN prev.positions :
            NoFreshPrice(t) =>
                /\ PriceGap(t) = prev.stale_price_days =>
                      portfolio.positions[t].market_value
                          = prev.positions[t].quantity * prev.positions[t].last_price
                /\ (/\ PriceGap(t) = prev.stale_price_days + 1
                    /\ KnownOption(prev.positions[t])
                    /\ lastCall.spot # None) =>
                      portfolio.positions[t].market_value
                          = prev.positions[t].quantity
                              * ExpectedIntrinsic(prev.positions[t], lastCall.spot)

C11_Witness ==
    /\ Valued
    /\ \E t \in DOMAIN prev.positions, u \in DOMAIN prev.positions :
          /\ NoFreshPrice(t) /\ NoFreshPrice(u)
          /\ PriceGap(t) = prev.stale_price_days + 1
          /\ KnownOption(prev.positions[t])
          /\ lastCall.spot # None
          /\ portfolio.positions[t].market_value
                # prev.positions[t].quantity * prev.positions[t].last_price
          /\ portfolio.positions[t].market_value # 0
          /\ PriceGap(u) = prev.stale_price_days
          /\ portfolio.positions[u].market_value # 0

\* The snapshot the last mark_to_market appended.
Snapshot == portfolio.history[Len(portfolio.history)]

\* The per-unit price the fallback chain resolves for a position held before
\* the valuation: fresh close, carried last price, intrinsic value, or zero.
ResolvedPrice(t) ==
    IF ~NoFreshPrice(t) THEN current_options[t].close
    ELSE IF PriceGap(t) <= prev.stale_price_days THEN prev.positions[t].last_price
    ELSE IF KnownOption(prev.positions[t]) /\ lastCall.spot # None
         THEN ExpectedIntrinsic(prev.positions[t], lastCall.spot)
    ELSE 0

RECURSIVE PositionsWorth(_)
PositionsWorth(tickers) ==
    IF tickers = {} THEN 0
    ELSE LET t == CHOOSE x \in tickers : TRUE
         IN  prev.positions[t].quantity * ResolvedPrice(t)
                 + PositionsWorth(tickers \ {t})

\* C12: the snapshot's portfolio_value is cash plus the sum of quantity times
\* resolved price over the open positions, its positions_value is
\* portfolio_value - cash, and its cash is the ledger's cash at the call.
C12_SnapshotTotals ==
    Valued =>
        /\ Len(portfolio.history) = Len(prev.history) + 1
        /\ Snapshot.cash = prev.cash
        /\ Snapshot.portfolio_value
              = prev.cash + PositionsWorth(DOMAIN prev.positions)
        /\ Snapshot.positions_value = Snapshot.portfolio_value - Snapshot.cash

C12_Witness ==
    /\ Valued
    /\ Cardinality(DOMAIN prev.positions) = 2
    /\ \A t \in DOMAIN prev.positions :
          prev.positions[t].quantity * ResolvedPrice(t) # 0
    /\ \E t \in DOMAIN prev.positions : ~NoFreshPrice(t)
    /\ Snapshot.positions_value # 0
    /\ Snapshot.cash # config.initial_cash

\* The positions the valuation priced by the intrinsic or the zero fallback:
\* no fresh price and a last price older than the grace period.
FallbackValued ==
    {t \in DOMAIN prev.positions :
        NoFreshPrice(t) /\ PriceGap(t) > prev.stale_price_days}

\* C13: the snapshot's missing_mtm_tickers holds exactly the tickers that were
\* valued by the intrinsic fallback or the zero fallback.
C13_MissingTickers ==
    Valued =>
        {Snapshot.missing_mtm_tickers[i] : i \in DOMAIN Snapshot.missing_mtm_tickers}
            = FallbackValued

\* The deferred trades of a ticker booked on a date.
DeferredTradesOn(d, t) ==
    {k \in TradeIndexes :
        /\ IsDeferredTrade(portfolio.trades[k])
        /\ portfolio.trades[k].date = d
        /\ portfolio.trades[k].ticker = t}

SignalsFor(signals, t) == {j \in DOMAIN signals : signals[j].ticker = t}

\* The signals handed to today's execution stage.
PendingSignals ==
    IF daily_history = <<>> THEN <<>> ELSE daily_history[Len(daily_history)].signals

\* C14: a deferred signal whose ticker has no row in the execution day's chain
\* changes nothing in the ledger, and no later day books a trade for it: the
\* deferred trades of a ticker on a logged day are as many as the day before's
\* signals for it when the ticker is quoted that day, and none otherwise.
C14_NoRowNoMutation ==
    /\ lastCall.op = "exec" =>
          /\ \A t \in Tickers \ DOMAIN current_options :
                /\ NewTradesOf(t) = {}
                /\ (t \in DOMAIN portfolio.positions) <=> (t \in DOMAIN prev.positions)
                /\ t \in DOMAIN prev.positions =>
                      portfolio.positions[t] = prev.positions[t]
          /\ (\A j \in DOMAIN PendingSignals :
                  PendingSignals[j].ticker \notin DOMAIN current_options) =>
                portfolio = prev
    /\ \A i \in DOMAIN daily_history, t \in Tickers :
          Cardinality(DeferredTradesOn(daily_history[i].date, t))
              = IF i > 1 /\ t \in DOMAIN daily_history[i].decision_options
                THEN Cardinality(SignalsFor(daily_history[i - 1].signals, t))
                ELSE 0

C14_Witness ==
    /\ pc = "done"
    /\ Len(daily_history) = 3
    /\ \E t \in Tickers :
          /\ SignalsFor(daily_history[1].signals, t) # {}
          /\ t \notin DOMAIN daily_history[2].decision_options
          /\ t \in DOMAIN daily_history[3].decision_options
          /\ \A k \in TradeIndexes : portfolio.trades[k].ticker # t
    /\ portfolio.trades # <<>>

\* The entries a run leaves about its signals: the trade log it returns and
\* the Backtester's trade_log attribute.
RunTradeLog == final_trades(portfolio) \o trade_log

\* The log entries for a ticker on an execution date that carry a status.
StatusEntries(d, t) ==
    {k \in DOMAIN RunTradeLog :
        /\ "status" \in DOMAIN RunTradeLog[k]
        /\ RunTradeLog[k].date = d
        /\ RunTradeLog[k].ticker = t}

\* C15: every deferred signal leaves one trade-log entry, with status EXECUTED
\* when its ticker is quoted on the execution day and FAILED_NO_DATA when not.
C15_TradeLogEntries ==
    \A i \in DOMAIN daily_history, t \in Tickers :
        i > 1 =>
            LET d == daily_history[i].date
                status == IF t \in DOMAIN daily_history[i].decision_options
                          THEN "EXECUTED" ELSE "FAILED_NO_DATA"
            IN  /\ Cardinality(StatusEntries(d, t))
                      = Cardinality(SignalsFor(daily_history[i - 1].signals, t))
                /\ \A k \in StatusEntries(d, t) : RunTradeLog[k].status = status

\* C16: when a handler raises, the handlers registered after it are still
\* invoked that day, and the day goes on to mark-to-market.
C16_HandlersAfterFailure ==
    lastCall.op = "events" =>
        /\ handler_log = config.event_handlers
        /\ pc = "mtm"

\* The configuration is one run() accepts: a data source is set and its stock
\* feed has a date column.
ValidSetup == config.has_data_source /\ config.has_date_column

\* C17: with a valid date range and data source, run() never raises, whatever
\* tickers the strategy's signals name.
C17_RunNeverRaises == ValidSetup => pc # "raised"

\* C18: with no data source, or a stock feed without a date column, run()
\* raises before any day is processed: the strategy is not invoked, no trade
\* and no valuation snapshot is added, and cash is unchanged.
C18_ConfigurationErrors ==
    ~ValidSetup =>
        /\ pc \in {"constructed", "raised"}
        /\ day_log = <<>>
        /\ daily_history = <<>>
        /\ portfolio.trades = <<>>
        /\ portfolio.history = <<>>
        /\ portfolio.cash = config.initial_cash

C18_Witness ==
    /\ pc = "raised"
    /\ config.has_data_source
    /\ ~config.has_date_column
    /\ portfolio.cash = config.initial_cash

\* C19: every executed deferred trade's record carries cost = quantity * price,
\* commission = |quantity| * commission_per_contract,
\* fees = |quantity * price| * fees_pct, and
\* total_trade_cost = cost + commission + fees.
C19_TradeCosts ==
    \A k \in TradeIndexes :
        LET tr == portfolio.trades[k]
        IN  IsDeferredTrade(tr) =>
                /\ tr.cost = tr.quantity * tr.price
                /\ tr.commission = Abs(tr.quantity) * config.commission_per_contract
                /\ tr.fees.n * config.fees_pct.d
                      = Abs(tr.quantity * tr.price) * config.fees_pct.n * tr.fees.d
                /\ "total_trade_cost" \in DOMAIN tr
                /\ tr.total_trade_cost.n * tr.fees.d
                      = ((tr.cost + tr.commission) * tr.fees.d + tr.fees.n)
                            * tr.total_trade_cost.d

\* The last row of the daily summary run() returns.
LastRow == daily_history[Len(daily_history)]

\* What an open position is worth on the last simulated day: quantity times
\* that day's close when the day's chain quotes it, its fallback value if not.
RECURSIVE FinalWorth(_)
FinalWorth(tickers) ==
    IF tickers = {} THEN 0
    ELSE LET t == CHOOSE x \in tickers : TRUE
             position == portfolio.positions[t]
         IN  (IF t \in DOMAIN LastRow.decision_options
              THEN position.quantity * LastRow.decision_options[t].close
              ELSE position.market_value)
             + FinalWorth(tickers \ {t})

\* C20: when run() has completed, the last summary row has the ledger's final
\* cash, and its portfolio_value is that cash plus the open positions valued at
\* the last simulated day's close.
C20_FinalSnapshot ==
    (pc = "done" /\ daily_history # <<>>) =>
        /\ LastRow.cash = portfolio.cash
        /\ LastRow.portfolio_value
              = portfolio.cash + FinalWorth(DOMAIN portfolio.positions)

C20_Witness ==
    /\ pc = "done"
    /\ daily_history # <<>>
    /\ \E k \in TradeIndexes : portfolio.trades[k].date = LastRow.date
    /\ \E t \in DOMAIN portfolio.positions :
          /\ t \in DOMAIN LastRow.decision_options
          /\ portfolio.positions[t].last_price_date = LastRow.date
    /\ LastRow.portfolio_value # LastRow.cash
    /\ LastRow.portfolio_value # config.initial_cash

\* The stock rows loaded for the run that are dated on or before the current
\* day, and the rows handed to the strategy.
RowsOnOrBefore == {config.stock_data[i] : i \in {j \in DOMAIN config.stock_data :
                                                  config.stock_data[j].date <= cur_date}}

RowsHanded == {lastCall.stock_history[i] : i \in DOMAIN lastCall.stock_history}

Min(a, b) == IF a <= b THEN a ELSE b

\* The strategy has just been called for the current day.
StrategyCalled == lastCall.op = "strategy" /\ pc = "loop"

\* C21: with lookback_days = L > 0 the strategy is handed exactly the L most
\* recent stock rows dated on or before the current day (fewer only if fewer
\* exist), oldest first and ending with the current day's row when there is
\* one; with lookback_days = 0 it is handed every row dated on or before the
\* current day.
C21_LookbackWindow ==
    StrategyCalled =>
        LET L == config.lookback_days
            handed == lastCall.stock_history
        IN  /\ RowsHanded \subseteq RowsOnOrBefore
            /\ Cardinality(RowsHanded) = Len(handed)
            /\ \A i \in 1..(Len(handed) - 1) : handed[i].date < handed[i + 1].date
            /\ IF L > 0
               THEN /\ Len(handed) = Min(L, Cardinality(RowsOnOrBefore))
                    /\ \A r \in RowsHanded, o \in RowsOnOrBefore \ RowsHanded :
                          o.date < r.date
               ELSE RowsHanded = RowsOnOrBefore
            /\ (\E r \in RowsOnOrBefore : r.date = cur_date)
                  => handed[Len(handed)].date = cur_date

\* A day on which the window is narrower than the history available.
C21_Witness ==
    /\ StrategyCalled
    /\ config.lookback_days > 0
    /\ Len(lastCall.stock_history) = config.lookback_days
    /\ Cardinality(RowsOnOrBefore) > config.lookback_days
    /\ lastCall.stock_history[Len(lastCall.stock_history)].date = cur_date

\* A day on which fewer than lookback_days rows exist.
C21_ShortHistory ==
    /\ StrategyCalled
    /\ config.lookback_days > Cardinality(RowsOnOrBefore)
    /\ lastCall.stock_history # <<>>

\* int(1.5 * n): the largest integer not above three halves of n.
OneAndAHalf(n) == CHOOSE k \in 0..(2 * n) : 2 * k <= 3 * n /\ 3 * n < 2 * (k + 1)

RequestsFor(name) == {requests[i] : i \in {j \in DOMAIN requests :
                                            requests[j].stream = name}}

\* C22: the option chain is requested for exactly [start_date, end_date]; the
\* stock history is requested from start_date minus
\* int(1.5 * lookback_days) + 15 days when lookback_days > 0 and from
\* start_date when it is 0, and to end_date in both cases.
C22_DataRequests ==
    (pc \notin {"constructed", "raised"} \/ requests # <<>>) =>
        /\ Len(requests) = 2
        /\ RequestsFor("options") =
              {[stream |-> "options", start_date |-> config.start_date,
                end_date |-> config.end_date]}
        /\ RequestsFor("stock") =
              {[stream |-> "stock",
                start_date |-> IF config.lookback_days > 0
                               THEN config.start_date
                                    - (OneAndAHalf(config.lookback_days) + 15)
                               ELSE config.start_date,
                end_date |-> config.end_date]}

\* A run with a lookback whose requests have been made and whose stock table
\* came back with a row from before start_date.
C22_Witness ==
    /\ pc = "strategy"
    /\ config.lookback_days = 3
    /\ \E r \in RequestsFor("stock") : r.start_date = config.start_date - 19
    /\ \E i \in DOMAIN config.stock_data :
          config.stock_data[i].date < config.start_date

HasOverride(signal) == "price" \in DOMAIN signal \/ "metadata" \in DOMAIN signal

\* C23: a trade executed for a signal that carries price and metadata is
\* booked at that price with that metadata; a trade for a signal without them
\* is booked at the execution day's high (buy) or low (sell) with the metadata
\* of the option chain.
C23_SignalOverrides ==
    lastCall.op = "exec" =>
        \A j \in DOMAIN PendingSignals :
            LET signal == PendingSignals[j]
            IN  \A k \in NewTradesOf(signal.ticker) :
                    LET tr == portfolio.trades[k]
                    IN  IF HasOverride(signal)
                        THEN /\ tr.price = signal.price
                             /\ \A key \in DOMAIN signal.metadata :
                                   /\ key \in DOMAIN tr
                                   /\ tr[key] = signal.metadata[key]
                        ELSE /\ tr.price = IF signal.quantity > 0
                                           THEN current_options[signal.ticker].high
                                           ELSE current_options[signal.ticker].low
                             /\ tr.strike = Instruments[signal.ticker].strike
                             /\ tr.option_type = Instruments[signal.ticker].type

\* The part of C23 about signals without overrides.
C23_DerivedWhenAbsent ==
    lastCall.op = "exec" =>
        \A j \in DOMAIN PendingSignals :
            LET signal == PendingSignals[j]
            IN  ~HasOverride(signal) =>
                  \A k \in NewTradesOf(signal.ticker) :
                    LET tr == portfolio.trades[k]
                    IN  /\ tr.price = IF signal.quantity > 0
                                      THEN current_options[signal.ticker].high
                                      ELSE current_options[signal.ticker].low
                        /\ tr.strike = Instruments[signal.ticker].strike
                        /\ tr.option_type = Instruments[signal.ticker].type

\* The metadata keys the ledger recognizes for a position.
RecognizedKeys == allowed_metadata \cup {"expiry_date"}

\* The metadata keys _execute_trades passes to add_trade.
ExecutionKeys ==
    {"type", "option_type", "due_date", "strike", "action", "commission", "fees"}

\* The part of C24 about trade records: a trade booked by _execute_trades
\* keeps every metadata key it was given.
C24_TradeRecordKeepsKeys ==
    \A k \in TradeIndexes :
        IsDeferredTrade(portfolio.trades[k]) =>
            ExecutionKeys \subseteq DOMAIN portfolio.trades[k]

\* C24: every key of an open position's metadata is a recognized key (type,
\* expiry or due date, strike, option_type, delta, hedged_stock_ticker), and
\* every trade record keeps all the metadata keys of its add_trade call.
C24_PositionMetadataKeys ==
    /\ \A t \in DOMAIN portfolio.positions :
          DOMAIN portfolio.positions[t].metadata \subseteq RecognizedKeys
    /\ C24_TradeRecordKeepsKeys

\* The last call was the expiration handler, on a date without a spot close.
HandledWithoutSpot == lastCall.op = "handle" /\ lastCall.spot = None

\* C25: when the stock slice has no row for the date, the expiration handler
\* changes nothing: no trade is added, cash is unchanged, and every position,
\* those expiring that day included, stays in the ledger as it was.
C25_NoSpotNoMutation ==
    HandledWithoutSpot =>
        /\ portfolio.trades = prev.trades
        /\ portfolio.cash = prev.cash
        /\ DOMAIN portfolio.positions = DOMAIN prev.positions
        /\ \A t \in DOMAIN prev.positions :
              portfolio.positions[t] = prev.positions[t]
        /\ portfolio = prev

\* The handler ran without a spot close on the expiry date of an open option,
\* with earlier stock rows in its slice.
C25_Witness ==
    /\ HandledWithoutSpot
    /\ \E t \in DOMAIN prev.positions :
          /\ ExpiringOption(prev.positions[t], cur_date)
          /\ t \in DOMAIN portfolio.positions

\* The last call used the mapping returned by get_positions().
UsedReturnedPositions ==
    lastCall.op \in {"read_returned_positions", "write_returned_positions"}

\* C26: whatever a caller does with the mapping get_positions() returned, the
\* ledger is as it was; the ledger changes only through add_trade and
\* mark_to_market.
C26_ReadOnlySnapshot ==
    /\ UsedReturnedPositions => portfolio = prev
    /\ portfolio # prev => lastCall.op \in {"add_trade", "mark_to_market"}

\* The part of C26 that holds: reading the returned mapping changes nothing.
C26_ReadingChangesNothing ==
    lastCall.op = "read_returned_positions" => portfolio = prev

\* What a run has produced that does not mention the verbosity level: the
\* trade history, the daily summaries and the ledger.
RunOutputs == <<portfolio, daily_history, trade_log>>

\* The day loop is about to start on the next chunk of the stream.
AtChunkStart == pc = "loop" /\ dates_in_chunk = <<>> /\ stream # <<>>

IsPrefix(s, t) == Len(s) <= Len(t) /\ \A i \in DOMAIN s : t[i] = s[i]

\* C28: every add_trade call appends exactly one record to the trade history,
\* the record of that call, whether it opens, changes or closes a position;
\* and add_trade, mark_to_market and the expiration handler leave every earlier
\* record where and as it was.
C28_TradeHistoryAppendOnly ==
    /\ IsPrefix(prev.trades, portfolio.trades)
    /\ lastCall.op = "add_trade" =>
          /\ Len(portfolio.trades) = Len(prev.trades) + 1
          /\ LET tr == portfolio.trades[Len(portfolio.trades)]
             IN  /\ tr.ticker = lastCall.ticker
                 /\ tr.quantity = lastCall.quantity
                 /\ tr.price = lastCall.price
    /\ lastCall.op = "mark_to_market" => portfolio.trades = prev.trades
    /\ lastCall.op = "handle" =>
          \A k \in NewTradeIndexes : IsSettlement(portfolio.trades[k])

\* An add_trade that closed a position, on a ledger that already had the
\* records of two trades.
C28_Witness ==
    /\ lastCall.op = "add_trade"
    /\ lastCall.ticker \in DOMAIN prev.positions
    /\ lastCall.ticker \notin DOMAIN portfolio.positions
    /\ Len(prev.trades) = 2

\* An add_trade on a ledger whose history holds a settlement.
C28_AfterSettlement ==
    /\ lastCall.op = "add_trade"
    /\ \E k \in DOMAIN prev.trades : IsSettlement(prev.trades[k])

\* An add_trade that changed an open position after a valuation.
C28_ChangedPosition ==
    /\ lastCall.op = "add_trade"
    /\ lastCall.ticker \in DOMAIN prev.positions
    /\ lastCall.ticker \in DOMAIN portfolio.positions
    /\ prev.history # <<>>

\* C29: a valuation that finds a fresh close for a position sets its
\* last_price to that close and its last_price_date to the valuation date; a
\* valuation that carries the last price forward leaves both as they were, so
\* the position's staleness is counted from the same date at the next
\* valuation.
C29_LastPriceUpdates ==
    Valued =>
        \A t \in DOMAIN prev.positions :
            /\ ~NoFreshPrice(t) =>
                  /\ portfolio.positions[t].last_price = current_options[t].close
                  /\ portfolio.positions[t].last_price_date = cur_date
            /\ (NoFreshPrice(t) /\ PriceGap(t) <= prev.stale_price_days) =>
                  /\ portfolio.positions[t].last_price = prev.positions[t].last_price
                  /\ portfolio.positions[t].last_price_date
                        = prev.positions[t].last_price_date
                  /\ portfolio.positions[t].market_value
                        = prev.positions[t].quantity * prev.positions[t].last_price

\* A second consecutive carry-forward of a position, its staleness grown by a
\* day, next to a position valued from a fresh close.
C29_Witness ==
    /\ Valued
    /\ \E t \in DOMAIN prev.positions :
          /\ NoFreshPrice(t)
          /\ prev.positions[t].mtm_price_source = "STALE_FWD"
          /\ portfolio.positions[t].mtm_price_source = "STALE_FWD"
          /\ PriceGap(t) = 1
          /\ prev.history[Len(prev.history)].date = cur_date - 1

\* A valuation from a fresh close that moved last_price and last_price_date.
C29_FreshClose ==
    /\ Valued
    /\ \E t \in DOMAIN prev.positions :
          /\ ~NoFreshPrice(t)
          /\ prev.positions[t].last_price # current_options[t].close
          /\ prev.positions[t].last_price_date < cur_date

NotAnOption(position) ==
    "type" \notin DOMAIN position.metadata \/ position.metadata.type # "option"

MissingStrikeOrType(position) ==
    ~NotAnOption(position)
    /\ ~({"strike", "option_type"} \subseteq DOMAIN position.metadata)

\* C30: without a fresh price and past the grace period, a position is valued
\* at zero when it is not an option, when it is an option without strike or
\* option_type, and when no spot price was supplied; the call completes and
\* appends its snapshot.
C30_ZeroFallback ==
    Valued =>
        /\ Len(portfolio.history) = Len(prev.history) + 1
        /\ \A t \in FallbackValued :
              (\/ NotAnOption(prev.positions[t])
               \/ MissingStrikeOrType(prev.positions[t])
               \/ lastCall.spot = None) =>
                  /\ t \in DOMAIN portfolio.positions
                  /\ portfolio.positions[t].market_value = 0

\* A valuation with a spot price that zeroed a position that is not an option
\* and an option without its strike.
C30_Witness ==
    /\ Valued
    /\ lastCall.spot # None
    /\ \E t \in FallbackValued, u \in FallbackValued :
          /\ NotAnOption(prev.positions[t])
          /\ MissingStrikeOrType(prev.positions[u])
          /\ prev.positions[t].last_price # 0
          /\ prev.positions[u].last_price # 0

\* A valuation without a spot price that zeroed an option with strike and
\* type.
C30_NoSpot ==
    /\ Valued
    /\ lastCall.spot = None
    /\ \E t \in FallbackValued :
          KnownOption(prev.positions[t]) /\ prev.positions[t].last_price # 0

\* A valuation that zeroed an option without its option_type.
C30_NoOptionType ==
    /\ Valued
    /\ \E t \in FallbackValued :
          /\ ~NotAnOption(prev.positions[t])
          /\ "option_type" \notin DOMAIN prev.positions[t].metadata
          /\ lastCall.spot # None

\* The last call was an add_trade on a position that was open before it and
\* is open after it.
TradedOpenPosition ==
    /\ lastCall.op = "add_trade"
    /\ lastCall.ticker \in DOMAIN prev.positions
    /\ lastCall.ticker \in DOMAIN portfolio.positions

\* C31: an add_trade on an open position that stays open leaves every
\* recognized metadata field the position already had at the value it had.
C31_MetadataImmutable ==
    TradedOpenPosition =>
        LET before == prev.positions[lastCall.ticker].metadata
            after == portfolio.positions[lastCall.ticker].metadata
        IN  \A key \in RecognizedKeys \cap DOMAIN before :
                key \in DOMAIN after /\ after[key] = before[key]

\* The part of C31 that holds: a recognized field is never removed, and it
\* keeps its value under a trade whose metadata does not restate it.
C31_KeptUnlessRestated ==
    TradedOpenPosition =>
        LET before == prev.positions[lastCall.ticker].metadata
            after == portfolio.positions[lastCall.ticker].metadata
            record == portfolio.trades[Len(portfolio.trades)]
        IN  \A key \in RecognizedKeys \cap DOMAIN before :
                /\ key \in DOMAIN after
                /\ key \notin DOMAIN record => after[key] = before[key]

StrictlyAscending(s) == \A i \in 1..(Len(s) - 1) : s[i] < s[i + 1]

\* The dates of the days the run has logged, in the order it logged them.
SimulatedDates == [i \in DOMAIN daily_history |-> daily_history[i].date]

\* The distinct dates of the source's chunks that are not after end_date.
DatesToSimulate ==
    {d \in 0..config.end_date :
        \E c \in DOMAIN config.options_data :
            \E i \in DOMAIN config.options_data[c] : config.options_data[c][i] = d}

\* C32: the dates of a chunk are simulated in strictly ascending order, each
\* once, whatever the order of the chunk's rows; and no day after end_date is
\* simulated: no logged day, trade or snapshot is dated after end_date, also
\* when further chunks follow the chunk in which end_date was passed.
C32_AscendingWithinEndDate ==
    /\ StrictlyAscending(dates_in_chunk)
    /\ StrictlyAscending(SimulatedDates)
    /\ \A i \in DOMAIN dates_in_chunk : cur_date < dates_in_chunk[i]
    /\ pc \in {"events", "mtm", "strategy"} =>
          \A i \in DOMAIN daily_history : daily_history[i].date < cur_date
    /\ cur_date <= config.end_date
    /\ \A i \in DOMAIN daily_history : daily_history[i].date <= config.end_date
    /\ \A k \in TradeIndexes : portfolio.trades[k].date <= config.end_date
    /\ \A i \in DOMAIN portfolio.history :
          portfolio.history[i].date <= config.end_date
    /\ pc = "done" =>
          {SimulatedDates[i] : i \in DOMAIN SimulatedDates} = DatesToSimulate

\* A finished run whose source streamed a day after end_date in one chunk and
\* another such day in the chunk after it.
C32_Witness ==
    /\ pc = "done"
    /\ Len(daily_history) = config.end_date
    /\ Len(daily_history) >= 2
    /\ \E c \in 1..(Len(config.options_data) - 1) :
          /\ \E i \in DOMAIN config.options_data[c] :
                config.options_data[c][i] > config.end_date
          /\ config.options_data[c + 1] # <<>>
    /\ portfolio.trades # <<>>

\* The positions of a process inside `with lock`: the parquet read, or the
\* temp-file write, the unlink and the rename.
GuardedSection ==
    {"set_write", "set_exists", "set_unlink", "set_rename", "set_fail",
     "set_release", "get_read", "get_release"}

InGuardedSection == {p \in Procs : procs[p].pc \in GuardedSection}

\* C33: at most one process at a time is inside the section guarded by the
\* key's inter-process lock, over any number of acquisitions and releases.
C33_MutualExclusion ==
    pc = "cache" => Cardinality(InGuardedSection) <= 1

\* The part of C33 that holds: two processes inside the section never hold
\* the lock of the same lock file.
C33_OneHolderPerLockFile ==
    pc = "cache" =>
        \A p \in InGuardedSection, q \in InGuardedSection :
            p # q => procs[p].fd # procs[q].fd

\* C34: when the key's cache file existed before the calls, a get_from_cache
\* that is not answered from the in-memory cache returns the previous or the
\* new data, never None.
C34_AtomicReplacement ==
    pc = "cache" =>
        \A p \in Procs :
            (/\ fs.initial # None
             /\ procs[p].pc = "idle"
             /\ procs[p].result.op = "get"
             /\ ~procs[p].result.from_memory)
                => procs[p].result.value # None

\* C35: mark_to_market leaves cash, the open tickers and their order, every
\* position's quantity, cost_basis and metadata, and the trade history as they
\* were, and appends exactly one snapshot to the portfolio history.
C35_ValuationFrame ==
    Valued =>
        /\ portfolio.cash = prev.cash
        /\ DOMAIN portfolio.positions = DOMAIN prev.positions
        /\ portfolio.order = prev.order
        /\ \A t \in DOMAIN prev.positions :
              /\ portfolio.positions[t].quantity = prev.positions[t].quantity
              /\ portfolio.positions[t].cost_basis = prev.positions[t].cost_basis
              /\ portfolio.positions[t].metadata = prev.positions[t].metadata
        /\ portfolio.trades = prev.trades
        /\ Len(portfolio.history) = Len(prev.history) + 1
        /\ IsPrefix(prev.history, portfolio.history)

\* A valuation of two positions that moved the last price of one and zeroed
\* the value of the other.
C35_Witness ==
    /\ Valued
    /\ \E t \in DOMAIN prev.positions, u \in DOMAIN prev.positions :
          /\ portfolio.positions[t].last_price # prev.positions[t].last_price
          /\ prev.positions[t].cost_basis # Zero
          /\ u \in FallbackValued
          /\ portfolio.positions[u].market_value = 0

\* The last call repeated the valuation made just before it.
ValuedAgain == lastCall.op = "mark_to_market_again"

\* The snapshot of the valuation that the last call repeated.
FirstSnapshot == prev.history[Len(prev.history)]

\* C36: a second mark_to_market with the same date, market data and spot
\* price, with no add_trade in between, gives a snapshot with the
\* portfolio_value and cash of the first, whichever tier valued each position.
C36_ValuationIdempotent ==
    ValuedAgain =>
        /\ Snapshot.date = FirstSnapshot.date
        /\ Snapshot.portfolio_value = FirstSnapshot.portfolio_value
        /\ Snapshot.cash = FirstSnapshot.cash
        /\ \A t \in DOMAIN prev.positions :
              portfolio.positions[t].market_value = prev.positions[t].market_value

\* A repeated valuation of a position that the first call valued at intrinsic
\* value, different from the price carried before.
C36_Witness ==
    /\ ValuedAgain
    /\ \E t \in DOMAIN prev.positions :
          /\ prev.positions[t].mtm_price_source = "INTRINSIC"
          /\ portfolio.positions[t].mtm_price_source = "STALE_FWD"
          /\ portfolio.positions[t].market_value \notin
                {0, portfolio.positions[t].quantity}

\* A repeated valuation of a position without data: zero both times.
C36_ZeroTwice ==
    /\ ValuedAgain
    /\ \E t \in DOMAIN prev.positions :
          /\ prev.positions[t].mtm_price_source = "ZERO_NO_DATA"
          /\ portfolio.positions[t].mtm_price_source = "ZERO_NO_DATA"

\* The consequence C36 draws for run(): the terminal mark-to-market leaves the
\* last simulated day's portfolio_value as the day's own valuation made it.
C36_TerminalKeepsValue ==
    (pc = "done" /\ lastCall.op = "final_mtm") =>
        /\ Snapshot.portfolio_value = FirstSnapshot.portfolio_value
        /\ LastRow.portfolio_value = FirstSnapshot.portfolio_value

\* A finished run whose terminal mark-to-market valued an open position.
C36_TerminalRan ==
    /\ pc = "done"
    /\ lastCall.op = "final_mtm"
    /\ DOMAIN portfolio.positions # {}
    /\ Snapshot.portfolio_value # Snapshot.cash

\* An open option whose expiry date passed before the date of the handler's
\* call.
OverdueOption(position, date) ==
    /\ {"type", "expiry_date"} \subseteq DOMAIN position.metadata
    /\ position.metadata.type = "option"
    /\ position.metadata.expiry_date < date

\* C37: an option that was not settled on its expiry date is settled by the
\* expiration handler on a later day that has a spot close: after such a call
\* no option past its expiry date is left in the ledger.
C37_DeferredSettlement ==
    HandledWithSpot =>
        \A t \in DOMAIN prev.positions :
            OverdueOption(prev.positions[t], cur_date) =>
                t \notin DOMAIN portfolio.positions

\* What the handler does with an option past its expiry date: nothing.
C37_OverdueNeverSettled ==
    lastCall.op = "handle" =>
        \A t \in DOMAIN prev.positions :
            OverdueOption(prev.positions[t], cur_date) =>
                /\ t \in DOMAIN portfolio.positions
                /\ portfolio.positions[t] = prev.positions[t]
                /\ NewTradesOf(t) = {}

\* The positions the valuation before the last one valued at intrinsic value,
\* on an earlier day, that were not traded on a later date than that day, and
\* that the last valuation found without a fresh price while it was given a
\* spot price.
IntrinsicBefore ==
    {t \in DOMAIN prev.positions :
        /\ prev.positions[t].mtm_price_source = "INTRINSIC"
        /\ prev.history # <<>>
        /\ prev.history[Len(prev.history)].date < cur_date
        /\ prev.positions[t].last_price_date <= prev.history[Len(prev.history)].date
        /\ NoFreshPrice(t)
        /\ lastCall.spot # None}

\* Days since the valuation that used the intrinsic fallback.
DaysSinceIntrinsic == cur_date - prev.history[Len(prev.history)].date

\* C38 as stated: after an intrinsic valuation on day D, every later
\* valuation without a fresh price and with a spot price values the option at
\* the intrinsic value of that later day's spot.
C38_Original ==
    Valued =>
        \A t \in IntrinsicBefore :
            portfolio.positions[t].market_value
                = prev.positions[t].quantity
                    * ExpectedIntrinsic(prev.positions[t], lastCall.spot)

\* C38: after an intrinsic valuation on day D and no trade of the position
\* dated after D, a later valuation without a fresh price and with a spot
\* price carries the position's last price, day D's intrinsic value, forward
\* while the day is within stale_price_days of D, and recomputes the intrinsic
\* value from the day's spot once it is further away.
C38_IntrinsicThenCarried ==
    Valued =>
        \A t \in IntrinsicBefore :
            portfolio.positions[t].market_value
                = prev.positions[t].quantity
                    * (IF DaysSinceIntrinsic <= prev.stale_price_days
                       THEN prev.positions[t].last_price
                       ELSE ExpectedIntrinsic(prev.positions[t], lastCall.spot))

\* The day after an intrinsic valuation: day D's value is carried although the
\* day's own spot gives another intrinsic value.
C38_Witness ==
    /\ Valued
    /\ \E t \in IntrinsicBefore :
          /\ DaysSinceIntrinsic = 1
          /\ portfolio.positions[t].mtm_price_source = "STALE_FWD"
          /\ portfolio.positions[t].market_value
                # prev.positions[t].quantity
                    * ExpectedIntrinsic(prev.positions[t], lastCall.spot)

\* Past the grace period after an intrinsic valuation: the value is recomputed.
C38_Recomputed ==
    /\ Valued
    /\ \E t \in IntrinsicBefore :
          /\ DaysSinceIntrinsic > prev.stale_price_days
          /\ portfolio.positions[t].mtm_price_source = "INTRINSIC"
          /\ portfolio.positions[t].market_value
                # prev.positions[t].quantity * prev.positions[t].last_price

\* The day on which the signals of entry i of daily_history are handed to the
\* execution stage: the next simulated day, once the run has reached it.
ConsumedOn(i) ==
    IF i < Len(daily_history) THEN daily_history[i + 1].date
    ELSE IF cur_date > daily_history[i].date THEN cur_date
    ELSE None

\* The signals for a ticker that are handed to the execution stage on a date.
SignalsConsumedOn(d, t) ==
    {<<i, j>> \in (DOMAIN daily_history) \X (1..MaxSignals) :
        /\ ConsumedOn(i) = d
        /\ j \in SignalsFor(daily_history[i].signals, t)}

DeferredTrades == {k \in TradeIndexes : IsDeferredTrade(portfolio.trades[k])}

\* C39: every signal gives at most one trade over the run.  The deferred
\* trades of a ticker dated on a day are never more than the signals for it
\* returned on the simulated day just before, whichever chunk that day was in,
\* so no signal is executed on a second day; and when the run is over the
\* signals of the last simulated day have given no trade.
C39_SignalsConsumedOnce ==
    /\ \A k \in DeferredTrades :
          LET tr == portfolio.trades[k]
          IN  Cardinality(DeferredTradesOn(tr.date, tr.ticker))
                  <= Cardinality(SignalsConsumedOn(tr.date, tr.ticker))
    /\ pc = "done" /\ daily_history # <<>> =>
          /\ Cardinality(DeferredTrades)
                <= SignalsIssued(SubSeq(daily_history, 1, Len(daily_history) - 1))
          /\ \A k \in DeferredTrades :
                portfolio.trades[k].date <= daily_history[Len(daily_history)].date

\* A finished run over two chunks: the signal of the first chunk's day was
\* filled once, on the first day of the second chunk, and the signal of the
\* last day was never filled.
C39_Witness ==
    /\ pc = "done"
    /\ config.options_data = Streams.split
    /\ Len(daily_history) = 3
    /\ daily_history[1].signals # <<>>
    /\ daily_history[2].signals = <<>>
    /\ daily_history[3].signals # <<>>
    /\ Cardinality(DeferredTrades) = 1
    /\ \A k \in DeferredTrades : portfolio.trades[k].date = 2

====
